---- MODULE Spec2Model ----
(***************************************************************************)
(* A model of the knowledge-search core of kota113/cyber-hackathon:        *)
(*   - MCPClientManager (src/lib/mcp-client.ts, src/unnamed/part_000):     *)
(*     the connection manager and the backend invoker;                     *)
(*   - SearchService (src/src/lib/search-service.ts): the aggregator;      *)
(*   - AgentService / BedrockClientService (src/unnamed/part_001,          *)
(*     part_002): the tool orchestrator and the model invoker.             *)
(*                                                                         *)
(* JavaScript runs each handler to its next await on I/O without           *)
(* interleaving; one action of the model is one such run.  The settlement  *)
(* of a promise and the continuations awaiting it run in one microtask     *)
(* checkpoint, so they are one action too.                                 *)
(***************************************************************************)
EXTENDS Integers, Sequences, FiniteSets, TLC

(***************************************************************************)
(* Bounds of the model.                                                    *)
(***************************************************************************)
NumTasks == 2        \* concurrent top-level calls
MaxConn == 3         \* createClient attempts in one behaviour
MaxCalls == 3        \* top-level calls in one behaviour
MaxClock == 2        \* readings of the clock (Date.now) that differ
MaxResults == 3      \* entries of a list handed to sort or deduplicate
MaxChats == 1        \* calls of AgentService in one behaviour
MaxParCalls == 2     \* calls of AgentService in one behaviour of concurrent callers
MaxConvs == 2        \* conversations created in one behaviour
MaxStatConvs == 3    \* conversations getStats is given
MaxStatMsgs == 3     \* messages in each of them
MaxSearches == 1     \* calls of SearchService.search in one behaviour

Tasks == 1..NumTasks

\* type MCPService = 'notion' | 'asana'; the order is the configuration order.
Service == {"notion", "asana"}
ServiceOrder == <<"notion", "asana">>

None == 0

VARIABLES
    clients,             \* MCPClientManager.clients: service -> Client id or None
    connectionPromises,  \* MCPClientManager.connectionPromises: service -> attempt id or None
    conn,                \* the createClient calls made so far, by attempt id
    sessions,            \* the Client objects made so far, by Client id
    task,                \* the top-level calls, one record per task
    inv,                 \* the searchService calls of each task, one per service
    calls,               \* top-level calls made so far
    dead,                \* history: Client ids whose liveness probe failed
    needsReconnect,      \* history: services whose Session a failed probe evicted last
    clock,               \* the time new Date() reads
    aggIn,               \* a result list handed to a helper of SearchService
    aggOut,              \* what the helper returned
    aggOp,               \* which helper ran
    conversations,       \* AgentService.conversations
    conversationHistory, \* BedrockClientService.conversationHistory
    chat                 \* the chat call of each task

mgrVars == <<clients, connectionPromises, conn, sessions>>
histVars == <<dead, needsReconnect>>
aggVars == <<aggIn, aggOut, aggOp>>
chatVars == <<conversations, conversationHistory, chat>>
outerVars == <<clock, aggVars, chatVars>>
vars == <<clients, connectionPromises, conn, sessions, task, inv, calls, dead, needsReconnect,
          clock, aggIn, aggOut, aggOp, conversations, conversationHistory, chat>>

(***************************************************************************)
(* Results of calls.                                                       *)
(***************************************************************************)
NoRes == [kind |-> "none", v |-> None]
ClientRes(c) == [kind |-> "client", v |-> c]
ErrorRes(e) == [kind |-> "error", v |-> e]
StatusRes(c, n) == [kind |-> "status", v |-> [connected |-> c, needsAuth |-> n]]
VoidRes == [kind |-> "void", v |-> None]
ResultsRes(l) == [kind |-> "results", v |-> l]

IdleTask ==
    [op |-> "none", pc |-> "idle", svc |-> "none", att |-> None, client |-> None,
     closing |-> {}, closed |-> {}, closeFailed |-> {}, res |-> NoRes,
     created |-> FALSE, deadAtCall |-> {},
     reconnectAtCall |-> FALSE, query |-> <<>>, callNo |-> 0,
     auth |-> "none", probed |-> "none", attemptsAtCall |-> 0]

\* What one call of AgentService.chat holds in its locals.
NoChat ==
    [arg |-> None, cid |-> None, message |-> <<>>, modelCalls |-> 0, toolUses |-> <<>>, idx |-> 0,
     toolResults |-> <<>>, toolsUsed |-> <<>>, searchResults |-> <<>>, sent |-> <<>>,
     before |-> [conversations |-> <<>>, conversationHistory |-> <<>>], callNo |-> 0]

NoInv ==
    [pc |-> "none", att |-> None, client |-> None, tool |-> <<>>, query |-> <<>>,
     reply |-> <<>>, value |-> <<>>, tools |-> <<>>]

(***************************************************************************)
(* MCPClientManager.getClient, its part before the await.                  *)
(***************************************************************************)
\* Which of the three paths of getClient a call for service s takes.
GetClientBranchNoJoin(s) ==
    IF clients[s] # None THEN "existing" ELSE "create"

GetClientBranch(s) ==
    IF clients[s] # None THEN "existing"
    ELSE IF connectionPromises[s] # None THEN "join"
    ELSE "create"

\* The manager as a value, so that one handler can make several calls.
Mgr == [clients |-> clients, promises |-> connectionPromises, conn |-> conn]

\* createClient(service) up to `await oauthService.getToken(service)`, and the
\* connectionPromises.set that follows it.
StartAttempt(m, s) ==
    [m EXCEPT !.conn = Append(m.conn, [svc |-> s, st |-> "token", client |-> None, token |-> "awaited"]),
              !.promises = [m.promises EXCEPT ![s] = Len(m.conn) + 1]]

\* The attempt a caller of getClient(s) awaits after the synchronous part.
AwaitedAttempt(m, s, branch) ==
    CASE branch = "existing" -> None
      [] branch = "join" -> m.promises[s]
      [] branch = "create" -> Len(m.conn) + 1

AfterGetClient(m, s, branch) ==
    IF branch = "create" THEN StartAttempt(m, s) ELSE m

(***************************************************************************)
(* Top-level calls of the connection manager.                              *)
(***************************************************************************)
CanCall(t) == task[t].pc \in {"idle", "done"} /\ calls < MaxCalls

\* getClient(service), lines 40-56.
CallGetClient(t, s) ==
    /\ CanCall(t)
    /\ LET b == GetClientBranch(s)
           m == AfterGetClient(Mgr, s, b)
       IN /\ b = "create" => Len(conn) < MaxConn
          /\ conn' = m.conn
          /\ connectionPromises' = m.promises
          /\ task' = [task EXCEPT ![t] =
                [IdleTask EXCEPT !.op = "getClient", !.svc = s,
                    !.pc = IF b = "existing" THEN "done" ELSE "awaitConn",
                    !.att = AwaitedAttempt(Mgr, s, b),
                    !.res = IF b = "existing" THEN ClientRes(clients[s]) ELSE NoRes,
                    !.created = (b = "create"),
                    !.deadAtCall = dead,
                    !.reconnectAtCall = needsReconnect[s]]]
    /\ needsReconnect' = [needsReconnect EXCEPT ![s] = FALSE]
    /\ calls' = calls + 1
    /\ UNCHANGED <<clients, sessions, inv, dead, outerVars>>

(***************************************************************************)
(* MCPClientManager.createClient after its awaits, with the continuation   *)
(* of getClient (lines 57-65) and of every caller awaiting the promise.    *)
(***************************************************************************)
\* What the callers awaiting attempt a do when it resolves with Client c:
\* a getClient call returns c; searchService goes on to client.listTools().
TaskAfterResolve(a, c) ==
    [t \in Tasks |->
        IF task[t].pc = "awaitConn" /\ task[t].att = a
        THEN [task[t] EXCEPT !.pc = "done", !.res = ClientRes(c)]
        ELSE task[t]]

InvAfterResolve(a, c) ==
    [t \in Tasks |-> [s \in Service |->
        IF inv[t][s].pc = "awaitConn" /\ inv[t][s].att = a
        THEN [inv[t][s] EXCEPT !.pc = "listTools", !.client = c]
        ELSE inv[t][s]]]

\* The error createClient throws: `Failed to connect to ${service}: ` followed
\* by the message of what failed (lines 222-226).
NoTokenMessage == "No OAuth token available. Please authenticate first."
ConnectMessage == "connect failed"
ConnectionError(cause) == ErrorRes(<<"Failed to connect", cause>>)

\* A rejection that reaches the creator of the attempt only.
TaskAfterRejectCreatorOnly(a, cause) ==
    [t \in Tasks |->
        IF task[t].pc = "awaitConn" /\ task[t].att = a /\ task[t].created
        THEN [task[t] EXCEPT !.pc = "done", !.res = ConnectionError(cause)]
        ELSE task[t]]

\* ... and when it rejects: getClient rethrows; searchService wraps and rethrows.
TaskAfterReject(a, cause) ==
    [t \in Tasks |->
        IF task[t].pc = "awaitConn" /\ task[t].att = a
        THEN [task[t] EXCEPT !.pc = "done", !.res = ConnectionError(cause)]
        ELSE task[t]]

InvAfterReject(a) ==
    [t \in Tasks |-> [s \in Service |->
        IF inv[t][s].pc = "awaitConn" /\ inv[t][s].att = a
        THEN [inv[t][s] EXCEPT !.pc = "rejected"]
        ELSE inv[t][s]]]

\* getClient's try block after the await: lines 59-60.
StoreKeepPromise(a, c) ==
    /\ clients' = [clients EXCEPT ![conn[a].svc] = c]
    /\ UNCHANGED connectionPromises

StoreClient(a, c) ==
    /\ clients' = [clients EXCEPT ![conn[a].svc] = c]
    /\ connectionPromises' = [connectionPromises EXCEPT ![conn[a].svc] = None]

\* A catch block that rethrows and leaves the settled promise in the map.
DropPromiseKeep(a) ==
    UNCHANGED <<connectionPromises, clients>>

\* getClient's catch block: line 63.
DropPromise(a) ==
    /\ connectionPromises' = [connectionPromises EXCEPT ![conn[a].svc] = None]
    /\ UNCHANGED clients

\* A createClient that goes on to the transport and connect without a token.
TokenAbsentUnchecked(a) ==
    /\ a \in 1..Len(conn)
    /\ conn[a].st = "token"
    /\ sessions' = Append(sessions,
            [svc |-> conn[a].svc, connected |-> FALSE, closed |-> FALSE])
    /\ conn' = [conn EXCEPT ![a].st = "connect", ![a].client = Len(sessions) + 1,
                            ![a].token = "absent"]
    /\ UNCHANGED <<clients, connectionPromises, task, inv, calls, dead, needsReconnect, outerVars>>

\* oauthService.getToken returns no token: createClient throws (lines 199-201),
\* the promise rejects.
TokenAbsent(a) ==
    /\ a \in 1..Len(conn)
    /\ conn[a].st = "token"
    /\ conn' = [conn EXCEPT ![a].st = "err", ![a].token = "absent"]
    /\ DropPromise(a)
    /\ task' = TaskAfterReject(a, NoTokenMessage)
    /\ inv' = InvAfterReject(a)
    /\ UNCHANGED <<sessions, calls, dead, needsReconnect, outerVars>>

\* A token is returned: the transport and the Client are made, connect is awaited.
TokenPresent(a) ==
    /\ a \in 1..Len(conn)
    /\ conn[a].st = "token"
    /\ sessions' = Append(sessions,
            [svc |-> conn[a].svc, connected |-> FALSE, closed |-> FALSE])
    /\ conn' = [conn EXCEPT ![a].st = "connect", ![a].client = Len(sessions) + 1,
                            ![a].token = "present"]
    /\ UNCHANGED <<clients, connectionPromises, task, inv, calls, dead, needsReconnect, outerVars>>

\* client.connect(transport) resolves.
ConnectOk(a) ==
    /\ a \in 1..Len(conn)
    /\ conn[a].st = "connect"
    /\ conn' = [conn EXCEPT ![a].st = "ok"]
    /\ sessions' = [sessions EXCEPT ![conn[a].client].connected = TRUE]
    /\ StoreClient(a, conn[a].client)
    /\ task' = TaskAfterResolve(a, conn[a].client)
    /\ inv' = InvAfterResolve(a, conn[a].client)
    /\ UNCHANGED <<calls, dead, needsReconnect, outerVars>>

\* client.connect(transport) rejects.
ConnectFail(a) ==
    /\ a \in 1..Len(conn)
    /\ conn[a].st = "connect"
    /\ conn' = [conn EXCEPT ![a].st = "err"]
    /\ DropPromise(a)
    /\ task' = TaskAfterReject(a, ConnectMessage)
    /\ inv' = InvAfterReject(a)
    /\ UNCHANGED <<sessions, calls, dead, needsReconnect, outerVars>>

(***************************************************************************)
(* MCPClientManager.getConnectionStatus.                                   *)
(***************************************************************************)
\* Up to `await oauthService.isAuthenticated(service)`.
CallStatus(t, s) ==
    /\ CanCall(t)
    /\ task' = [task EXCEPT ![t] =
            [IdleTask EXCEPT !.op = "getConnectionStatus", !.svc = s, !.pc = "auth"]]
    /\ calls' = calls + 1
    /\ UNCHANGED <<mgrVars, inv, histVars, outerVars>>

\* isAuthenticated is false: lines 139-141.
AuthNo(t) ==
    /\ task[t].pc = "auth"
    /\ task' = [task EXCEPT ![t].pc = "done", ![t].auth = "no",
                            ![t].res = StatusRes(FALSE, TRUE)]
    /\ UNCHANGED <<mgrVars, inv, calls, histVars, outerVars>>

\* A getConnectionStatus without the outer try: the error reaches the caller.
AuthThrowsUncaught(t) ==
    /\ task[t].pc = "auth"
    /\ task' = [task EXCEPT ![t].pc = "done", ![t].auth = "threw",
                            ![t].res = ErrorRes("StatusCheckFailed")]
    /\ UNCHANGED <<mgrVars, inv, calls, histVars, outerVars>>

\* isAuthenticated throws: the outer catch, lines 161-164.
AuthThrows(t) ==
    /\ task[t].pc = "auth"
    /\ task' = [task EXCEPT ![t].pc = "done", ![t].auth = "threw",
                            ![t].res = StatusRes(FALSE, TRUE)]
    /\ UNCHANGED <<mgrVars, inv, calls, histVars, outerVars>>

\* isAuthenticated is true: lines 144-148 and 157-160.
AuthYes(t) ==
    /\ task[t].pc = "auth"
    /\ task' = [task EXCEPT ![t] =
            IF clients[task[t].svc] # None
            THEN [task[t] EXCEPT !.pc = "probe", !.auth = "yes",
                                 !.client = clients[task[t].svc]]
            ELSE [task[t] EXCEPT !.pc = "done", !.auth = "yes",
                                 !.res = StatusRes(FALSE, FALSE)]]
    /\ UNCHANGED <<mgrVars, inv, calls, histVars, outerVars>>

\* client.listTools() resolves; a closed Client answers no request.
ProbeOk(t) ==
    /\ task[t].pc = "probe"
    /\ ~sessions[task[t].client].closed
    /\ task' = [task EXCEPT ![t].pc = "done", ![t].probed = "ok",
                            ![t].res = StatusRes(TRUE, FALSE)]
    /\ UNCHANGED <<mgrVars, inv, calls, histVars, outerVars>>

\* The catch block of the probe: line 153.
EvictKeep(s) == clients

Evict(s) == [clients EXCEPT ![s] = None]

\* client.listTools() rejects.
ProbeFail(t) ==
    /\ task[t].pc = "probe"
    /\ clients' = Evict(task[t].svc)
    /\ dead' = dead \cup {task[t].client}
    /\ needsReconnect' =
            [needsReconnect EXCEPT ![task[t].svc] = (clients[task[t].svc] # None)]
    /\ task' = [task EXCEPT ![t].pc = "done", ![t].probed = "failed",
                            ![t].res = StatusRes(FALSE, FALSE)]
    /\ UNCHANGED <<connectionPromises, conn, sessions, inv, calls, outerVars>>

(***************************************************************************)
(* MCPClientManager.disconnect and disconnectAll.                          *)
(***************************************************************************)
\* The Client ids stored for the services of S.
StoredIn(S) == {clients[s] : s \in {x \in S : clients[x] # None}}

\* client.close() is issued on each of them.
CloseIssued(S) ==
    [c \in DOMAIN sessions |->
        IF c \in StoredIn(S) THEN [sessions[c] EXCEPT !.closed = TRUE] ELSE sessions[c]]

\* disconnect(service) up to `await client.close()`, or to its end when no
\* Client is stored.
CallDisconnect(t, s) ==
    /\ CanCall(t)
    /\ sessions' = CloseIssued({s})
    /\ task' = [task EXCEPT ![t] =
            [IdleTask EXCEPT !.op = "disconnect", !.svc = s,
                !.pc = IF clients[s] # None THEN "closing" ELSE "done",
                !.closing = IF clients[s] # None THEN {s} ELSE {},
                !.closed = StoredIn({s}),
                !.attemptsAtCall = Len(conn),
                !.res = IF clients[s] # None THEN NoRes ELSE VoidRes]]
    /\ calls' = calls + 1
    /\ UNCHANGED <<clients, connectionPromises, conn, inv, histVars, outerVars>>

\* disconnectAll(): disconnect(service) is called for every key of clients
\* before any of them is awaited.
CallDisconnectAll(t) ==
    /\ CanCall(t)
    /\ LET S == {s \in Service : clients[s] # None}
       IN /\ sessions' = CloseIssued(S)
          /\ task' = [task EXCEPT ![t] =
                [IdleTask EXCEPT !.op = "disconnectAll",
                    !.pc = IF S # {} THEN "closing" ELSE "done",
                    !.closing = S,
                    !.closed = StoredIn(S),
                    !.attemptsAtCall = Len(conn),
                    !.res = IF S # {} THEN NoRes ELSE VoidRes]]
    /\ calls' = calls + 1
    /\ UNCHANGED <<clients, connectionPromises, conn, inv, histVars, outerVars>>

\* A join that gives up the disconnects still running when one fails.
AfterCloseAbort(t, s, ok) ==
    [task[t] EXCEPT
        !.closing = IF ok THEN @ \ {s} ELSE {},
        !.closeFailed = IF ok THEN @ ELSE @ \cup {s},
        !.pc = IF task[t].closing = {s} \/ ~ok THEN "done" ELSE "closing",
        !.res = IF ~ok THEN ErrorRes("CloseError")
                ELSE IF task[t].closing = {s} THEN VoidRes
                ELSE task[t].res]

\* The call's result once close has settled for service s: Promise.all rejects
\* with the first failure, and resolves when every disconnect has resolved.
AfterClose(t, s, ok) ==
    [task[t] EXCEPT
        !.closing = @ \ {s},
        !.closeFailed = IF ok THEN @ ELSE @ \cup {s},
        !.pc = IF task[t].closing = {s} THEN "done" ELSE "closing",
        !.res = IF ~ok /\ task[t].res.kind # "error" THEN ErrorRes("CloseError")
                ELSE IF ok /\ task[t].closing = {s} /\ task[t].res.kind # "error"
                THEN VoidRes
                ELSE task[t].res]

\* client.close() resolves and the entry of the service is left in place.
CloseOkKeep(t, s) ==
    /\ task[t].pc = "closing"
    /\ s \in task[t].closing
    /\ task' = [task EXCEPT ![t] = AfterClose(t, s, TRUE)]
    /\ UNCHANGED <<mgrVars, inv, calls, histVars, outerVars>>

\* client.close() resolves: line 174 deletes the entry of the service.
CloseOk(t, s) ==
    /\ task[t].pc = "closing"
    /\ s \in task[t].closing
    /\ clients' = [clients EXCEPT ![s] = None]
    /\ task' = [task EXCEPT ![t] = AfterClose(t, s, TRUE)]
    /\ UNCHANGED <<connectionPromises, conn, sessions, inv, calls, histVars, outerVars>>

\* client.close() rejects: disconnect throws before line 174.
CloseFail(t, s) ==
    /\ task[t].pc = "closing"
    /\ s \in task[t].closing
    /\ task' = [task EXCEPT ![t] = AfterClose(t, s, FALSE)]
    /\ UNCHANGED <<mgrVars, inv, calls, histVars, outerVars>>

(***************************************************************************)
(* The connection manager under concurrent demand.                         *)
(***************************************************************************)
Init ==
    /\ clients = [s \in Service |-> None]
    /\ connectionPromises = [s \in Service |-> None]
    /\ conn = <<>>
    /\ sessions = <<>>
    /\ task = [t \in Tasks |-> IdleTask]
    /\ inv = [t \in Tasks |-> [s \in Service |-> NoInv]]
    /\ calls = 0
    /\ dead = {}
    /\ needsReconnect = [s \in Service |-> FALSE]
    /\ clock = 1
    /\ aggIn = <<>>
    /\ aggOut = <<>>
    /\ aggOp = "none"
    /\ conversations = <<>>
    /\ conversationHistory = <<>>
    /\ chat = [t \in Tasks |-> NoChat]

Settle ==
    \E a \in 1..MaxConn :
        \/ TokenAbsent(a)
        \/ TokenPresent(a)
        \/ ConnectOk(a)
        \/ ConnectFail(a)

Next ==
    \/ \E t \in Tasks, s \in Service : CallGetClient(t, s)
    \/ \E t \in Tasks, s \in Service : CallStatus(t, s)
    \/ \E t \in Tasks, s \in Service : CallDisconnect(t, s)
    \/ \E t \in Tasks : CallDisconnectAll(t)
    \/ Settle
    \/ \E t \in Tasks : AuthNo(t) \/ AuthThrows(t) \/ AuthYes(t)
    \/ \E t \in Tasks : ProbeOk(t) \/ ProbeFail(t)
    \/ \E t \in Tasks, s \in Service : CloseOk(t, s) \/ CloseFail(t, s)

Spec == Init /\ [][Next]_vars

(***************************************************************************)
(* Claims about the connection manager, checked under Spec.                *)
(***************************************************************************)
\* The connection attempts for service s that have not settled.
InFlight(s) ==
    {a \in 1..Len(conn) : conn[a].svc = s /\ conn[a].st \in {"token", "connect"}}

\* The getClient(s) calls that have not completed.
Awaiting(s) ==
    {t \in Tasks : task[t].op = "getClient" /\ task[t].svc = s /\ task[t].pc = "awaitConn"}

\* The attempts awaited by some caller of getClient(s), searchService included.
AwaitedBy(s) ==
    {task[t].att : t \in Awaiting(s)}
        \cup {inv[t][s].att : t \in {u \in Tasks : inv[u][s].pc = "awaitConn"}}

\* The Sessions of s that were connected and on which close was not issued.
Live(s) ==
    {c \in 1..Len(sessions) :
        sessions[c].svc = s /\ sessions[c].connected /\ ~sessions[c].closed}

\* C1: the getClient(s) calls issued while no Session is stored and before the
\* first of them completes share one connection attempt: at most one attempt
\* for s is unsettled, every waiting caller awaits it, only one of the waiting
\* callers started it, and every caller that awaited an attempt received the
\* Client that attempt made.
C1_SingleConnectAttempt ==
    \A s \in Service :
        /\ Cardinality(InFlight(s)) <= 1
        /\ AwaitedBy(s) \subseteq InFlight(s)
        /\ Cardinality({t \in Awaiting(s) : task[t].created}) <= 1
        /\ \A t \in Tasks :
            (/\ task[t].op = "getClient" /\ task[t].svc = s
             /\ task[t].att # None /\ task[t].res.kind = "client")
                => task[t].res.v = conn[task[t].att].client

\* Two getClient calls that shared one attempt have both returned its Client.
C1_Witness ==
    \E t, u \in Tasks :
        /\ t # u
        /\ task[t].op = "getClient" /\ task[u].op = "getClient"
        /\ task[t].att # None /\ task[t].att = task[u].att
        /\ task[t].created /\ ~task[u].created
        /\ task[t].res.kind = "client" /\ task[u].res = task[t].res

\* C2: each service has at most one Session that was connected and on which
\* close has not been issued.
C2_AtMostOneLiveSession ==
    \A s \in Service : Cardinality(Live(s)) <= 1

\* C3: at most one connection attempt per service is pending, it is the one
\* registered in connectionPromises, and no service has an entry in
\* connectionPromises and an entry in clients at the same time.
C3_PendingExcludesSession ==
    \A s \in Service :
        /\ Cardinality(InFlight(s)) <= 1
        /\ InFlight(s) \subseteq {connectionPromises[s]}
        /\ connectionPromises[s] # None => clients[s] = None

\* A connection is pending for a service that had a Session before.
C3_Witness ==
    \E s \in Service :
        /\ connectionPromises[s] # None
        /\ \E c \in 1..Len(sessions) : sessions[c].svc = s /\ sessions[c].connected

\* C4: a Session whose liveness probe failed is not stored in the manager; the
\* failed probe of a stored Session leaves neither a Session nor a pending
\* connection for the service, so that the next getClient starts a new
\* connection attempt; and no getClient called after the failure returns the
\* dead Session.
C4_FailedProbeEvicts ==
    /\ \A s \in Service :
        /\ clients[s] \notin dead
        /\ needsReconnect[s] => clients[s] = None /\ connectionPromises[s] = None
    /\ \A t \in Tasks :
        task[t].op = "getClient" =>
            /\ task[t].reconnectAtCall => task[t].created
            /\ task[t].res.kind = "client" => task[t].res.v \notin task[t].deadAtCall

\* The first getClient after a failed probe has reconnected.
C4_Witness ==
    \E t \in Tasks :
        /\ task[t].op = "getClient"
        /\ task[t].reconnectAtCall /\ task[t].created
        /\ task[t].deadAtCall # {}
        /\ task[t].res.kind = "client"

(***************************************************************************)
(* Strings are sequences of characters, so that trim, toLowerCase,         *)
(* includes, substring, concatenation and localeCompare are computed.      *)
(***************************************************************************)
UpperChars == <<"A", "B", "C", "D", "E", "F", "G", "H", "I", "J", "K", "L", "M", "N", "O", "P", "Q", "R", "S", "T", "U", "V", "W", "X", "Y", "Z">>
LowerChars == <<"a", "b", "c", "d", "e", "f", "g", "h", "i", "j", "k", "l", "m", "n", "o", "p", "q", "r", "s", "t", "u", "v", "w", "x", "y", "z">>
Whitespace == {" ", "\t", "\n"}

\* String.prototype.trim
RECURSIVE TrimLeft(_)
TrimLeft(str) ==
    IF str # <<>> /\ Head(str) \in Whitespace THEN TrimLeft(Tail(str)) ELSE str

RECURSIVE TrimRight(_)
TrimRight(str) ==
    IF str # <<>> /\ str[Len(str)] \in Whitespace
    THEN TrimRight(SubSeq(str, 1, Len(str) - 1))
    ELSE str

Trim(str) == TrimRight(TrimLeft(str))

\* String.prototype.toLowerCase
ToLowerChar(c) ==
    IF \E i \in 1..Len(UpperChars) : UpperChars[i] = c
    THEN LowerChars[CHOOSE i \in 1..Len(UpperChars) : UpperChars[i] = c]
    ELSE c

ToLowerCase(str) == [i \in 1..Len(str) |-> ToLowerChar(str[i])]

\* String.prototype.includes
Includes(str, sub) ==
    \E i \in 0..(Len(str) - Len(sub)) : SubSeq(str, i + 1, i + Len(sub)) = sub

\* String.prototype.substring(0, n)
Substring0(str, n) == SubSeq(str, 1, IF Len(str) < n THEN Len(str) ELSE n)

ServiceName(s) == IF s = "notion" THEN <<"n", "o", "t", "i", "o", "n">> ELSE <<"a", "s", "a", "n", "a">>

(***************************************************************************)
(* What the backends answer: the tools they list, the content a tool       *)
(* returns, the resources they list.                                       *)
(***************************************************************************)
ToolListPages == <<"l", "i", "s", "t", "_", "p", "a", "g", "e", "s">>
ToolGetUser == <<"A", "P", "I", "-", "g", "e", "t", "-", "u", "s", "e", "r">>
ToolSearch == <<"n", "o", "t", "i", "o", "n", "-", "S", "e", "a", "r", "c", "h">>
ToolFind == <<"f", "i", "n", "d", "_", "p", "a", "g", "e">>

ToolLists == {<<>>, <<ToolListPages>>, <<ToolGetUser, ToolSearch, ToolFind>>}

TextFoo == <<"f", "o", "o">>
TextItem(text) == [type |-> "text", text |-> text]
ImageItem == [type |-> "image", text |-> <<>>]

ToolContents ==
    {<<>>, <<TextItem(TextFoo)>>,
     <<TextItem(TextFoo), ImageItem, TextItem(<<>>), TextItem(TextFoo)>>}

\* A resource has a uri, and may have a name and a description.
Resource(uri, name, description) == [uri |-> uri, name |-> name, description |-> description]
Doc(i) == Resource(<<"x", ToString(i)>>, <<"d", "o", "c", ToString(i)>>, <<>>)
Doc1 == Resource(<<"x">>, <<"d", "o", "c", "1">>, <<>>)
Unnamed == Resource(<<"y">>, <<>>, <<"a", "b", "o", "u", "t">>)

ResourceLists == {<<>>, <<Doc1>>, <<Unnamed, Doc(2), Doc(3), Doc(4), Doc(5), Doc(6)>>}

(***************************************************************************)
(* MCPClientManager.searchService, the backend invoker.                    *)
(***************************************************************************)
\* tools.tools?.find(...): the first tool whose name contains 'search' or
\* 'find' once lowercased; <<>> when there is none.
IsSearchLikeCaseSensitive(name) ==
    \/ Includes(name, <<"s", "e", "a", "r", "c", "h">>)
    \/ Includes(name, <<"f", "i", "n", "d">>)

IsSearchLike(name) ==
    \/ Includes(ToLowerCase(name), <<"s", "e", "a", "r", "c", "h">>)
    \/ Includes(ToLowerCase(name), <<"f", "i", "n", "d">>)

FindSearchTool(tools) ==
    IF \E i \in 1..Len(tools) : IsSearchLike(tools[i])
    THEN tools[CHOOSE i \in 1..Len(tools) :
            /\ IsSearchLike(tools[i])
            /\ \A j \in 1..(i - 1) : ~IsSearchLike(tools[j])]
    ELSE <<>>

\* Lines 92-112: one SearchResult per content item of type 'text'.
IsTextItem(item) == item.type = "text"

NoContent == <<"N", "o", " ", "c", "o", "n", "t", "e", "n", "t", " ", "a", "v", "a", "i", "l", "a", "b", "l", "e">>
NoDescription == <<"N", "o", " ", "d", "e", "s", "c", "r", "i", "p", "t", "i", "o", "n", " ", "a", "v", "a", "i", "l", "a", "b", "l", "e">>
ResultTitlePrefix == <<"S", "e", "a", "r", "c", "h", " ", "r", "e", "s", "u", "l", "t", " ", "f", "r", "o", "m", " ">>

ToolResults(s, content, callNo, now) ==
    LET texts == SelectSeq(content, IsTextItem)
    IN [k \in 1..Len(texts) |->
            [id |-> <<s, callNo, k>>,
             title |-> ResultTitlePrefix \o ServiceName(s),
             content |-> IF texts[k].text # <<>> THEN texts[k].text ELSE NoContent,
             source |-> s,
             url |-> None,
             lastModified |-> now]]

\* Lines 115-123: the first five resources, one SearchResult each.
MaxResources == 5

\* The fallback without slice(0, 5).
ResourceResultsAll(s, resources, now) ==
    [k \in 1..Len(resources) |->
        [id |-> <<s, "resource", k - 1>>,
         title |-> IF resources[k].name # <<>> THEN resources[k].name
                   ELSE resources[k].uri,
         content |-> IF resources[k].description # <<>>
                     THEN resources[k].description ELSE NoDescription,
         source |-> s,
         url |-> resources[k].uri,
         lastModified |-> now]]

ResourceResults(s, resources, now) ==
    LET n == IF Len(resources) < MaxResources THEN Len(resources) ELSE MaxResources
    IN [k \in 1..n |->
            [id |-> <<s, "resource", k - 1>>,
             title |-> IF resources[k].name # <<>> THEN resources[k].name
                       ELSE resources[k].uri,
             content |-> IF resources[k].description # <<>>
                         THEN resources[k].description ELSE NoDescription,
             source |-> s,
             url |-> resources[k].uri,
             lastModified |-> now]]

\* searchService(service, query) up to its first await on I/O: getClient, and
\* client.listTools() when a Client is stored.
InvStart(m, s, b, q) ==
    [NoInv EXCEPT
        !.pc = IF b = "existing" THEN "listTools" ELSE "awaitConn",
        !.att = AwaitedAttempt(m, s, b),
        !.client = IF b = "existing" THEN m.clients[s] ELSE None,
        !.query = q]

\* client.listTools() resolves: callTool on the search tool, or listResources.
ListToolsOk(t, s, tools) ==
    /\ inv[t][s].pc = "listTools"
    /\ ~sessions[inv[t][s].client].closed
    /\ inv' = [inv EXCEPT ![t][s] =
            IF FindSearchTool(tools) # <<>>
            THEN [@ EXCEPT !.pc = "callTool", !.tools = tools,
                           !.tool = FindSearchTool(tools)]
            ELSE [@ EXCEPT !.pc = "listResources", !.tools = tools]]
    /\ UNCHANGED <<mgrVars, task, calls, histVars, outerVars>>

\* client.callTool(...) resolves.
CallToolOk(t, s, content) ==
    /\ inv[t][s].pc = "callTool"
    /\ ~sessions[inv[t][s].client].closed
    /\ inv' = [inv EXCEPT ![t][s] =
            [@ EXCEPT !.pc = "fulfilled", !.reply = content,
                      !.value = ToolResults(s, content, task[t].callNo, clock)]]
    /\ UNCHANGED <<mgrVars, task, calls, histVars, outerVars>>

\* client.listResources() resolves.
ListResourcesOk(t, s, resources) ==
    /\ inv[t][s].pc = "listResources"
    /\ ~sessions[inv[t][s].client].closed
    /\ inv' = [inv EXCEPT ![t][s] =
            [@ EXCEPT !.pc = "fulfilled", !.reply = resources,
                      !.value = ResourceResults(s, resources, clock)]]
    /\ UNCHANGED <<mgrVars, task, calls, histVars, outerVars>>

\* Any of the three requests rejects: the catch block wraps and rethrows.
InvFail(t, s) ==
    /\ inv[t][s].pc \in {"listTools", "callTool", "listResources"}
    /\ inv' = [inv EXCEPT ![t][s].pc = "rejected"]
    /\ UNCHANGED <<mgrVars, task, calls, histVars, outerVars>>

\* Time passes.
Tick ==
    /\ clock < MaxClock
    /\ clock' = clock + 1
    /\ UNCHANGED <<mgrVars, task, inv, calls, histVars, aggVars, chatVars>>

(***************************************************************************)
(* SearchService.sortSearchResults and deduplicateResults.                 *)
(***************************************************************************)
\* The rank of a character in the collation order of localeCompare, for the
\* characters the model uses: space and punctuation before digits before
\* letters, a letter before its capital.
Collation == <<" ", "-", "_", "0", "1", "2", "3", "4", "5", "6", "7", "8", "9", "a", "A", "b", "B", "c", "C", "d", "D", "e", "E", "f", "F", "g", "G", "h", "H", "i", "I", "j", "J", "k", "K", "l", "L", "m", "M", "n", "N", "o", "O", "p", "P", "q", "Q", "r", "R", "s", "S", "t", "T", "u", "U", "v", "V", "w", "W", "x", "X", "y", "Y", "z", "Z">>

CharRank(c) == CHOOSE i \in 1..Len(Collation) : Collation[i] = c

\* a.localeCompare(b): negative, zero or positive.
RECURSIVE LocaleCompare(_, _)
LocaleCompare(a, b) ==
    IF a = <<>> /\ b = <<>> THEN 0
    ELSE IF a = <<>> THEN -1
    ELSE IF b = <<>> THEN 1
    ELSE IF CharRank(Head(a)) < CharRank(Head(b)) THEN -1
    ELSE IF CharRank(Head(a)) > CharRank(Head(b)) THEN 1
    ELSE LocaleCompare(Tail(a), Tail(b))

\* The comparator of sortSearchResults, lines 326-339.  An absent or empty
\* lastModified is None.
CompareResults(a, b) ==
    IF a.lastModified # None /\ b.lastModified # None
    THEN b.lastModified - a.lastModified
    ELSE IF a.source # b.source
    THEN (IF a.source = "notion" THEN -1 ELSE 1)
    ELSE LocaleCompare(a.title, b.title)

\* Array.prototype.sort on a short array is a binary insertion sort (V8); it
\* is stable, as ECMAScript requires of every engine.
RECURSIVE InsertionPoint(_, _, _, _)
InsertionPoint(sorted, pivot, left, right) ==
    IF left >= right THEN left
    ELSE LET mid == left + ((right - left) \div 2)
         IN IF CompareResults(pivot, sorted[mid + 1]) < 0
            THEN InsertionPoint(sorted, pivot, left, mid)
            ELSE InsertionPoint(sorted, pivot, mid + 1, right)

InsertSorted(sorted, pivot) ==
    LET at == InsertionPoint(sorted, pivot, 0, Len(sorted))
    IN SubSeq(sorted, 1, at) \o <<pivot>> \o SubSeq(sorted, at + 1, Len(sorted))

RECURSIVE SortPrefix(_, _)
SortPrefix(results, n) ==
    IF n = 0 THEN <<>> ELSE InsertSorted(SortPrefix(results, n - 1), results[n])

sortSearchResults(results) == SortPrefix(results, Len(results))

\* The key of deduplicateResults, line 351.
KeyPrefixLen == 100

\* A key over the whole content, not its first 100 characters.
DedupKeyWholeContent(r) ==
    ServiceName(r.source) \o <<"-">> \o r.title \o <<"-">> \o r.content

DedupKey(r) ==
    ServiceName(r.source) \o <<"-">> \o r.title \o <<"-">>
        \o Substring0(r.content, KeyPrefixLen)

\* Lines 346-359: the entries whose key no earlier entry has.
RECURSIVE DedupFrom(_, _, _)
DedupFrom(results, i, seen) ==
    IF i > Len(results) THEN <<>>
    ELSE IF DedupKey(results[i]) \in seen
    THEN DedupFrom(results, i + 1, seen)
    ELSE <<results[i]>> \o DedupFrom(results, i + 1, seen \cup {DedupKey(results[i])})

deduplicateResults(results) == DedupFrom(results, 1, {})

(***************************************************************************)
(* SearchService.search, called directly or through ApiClient.search.      *)
(***************************************************************************)
Queries == {<<>>, <<" ">>, <<" ", "q", " ">>}

\* The aggregator is driven by one caller, one search after another; the
\* manager under concurrent callers is Spec.
SearchTasks == {CHOOSE t \in Tasks : \A u \in Tasks : t <= u}

\* !query || query.trim().length === 0
IsEmptyQueryNoTrim(q) == q = <<>>

IsEmptyQuery(q) == q = <<>> \/ Len(Trim(q)) = 0

\* ApiClient.search validates, then SearchService.search validates again.
Rejects(via, q) ==
    IF via = "ApiClient" THEN IsEmptyQuery(q) \/ IsEmptyQuery(q) ELSE IsEmptyQuery(q)

\* Lines 23-31: searchService is called for notion, then for asana, before
\* either is awaited.
CallSearch(t, via, q) ==
    /\ task[t].pc \in {"idle", "done"}
    /\ calls < MaxSearches
    /\ calls' = calls + 1
    /\ IF Rejects(via, q)
       THEN /\ task' = [task EXCEPT ![t] =
                    [IdleTask EXCEPT !.op = "search", !.pc = "done", !.query = q,
                        !.callNo = calls + 1, !.res = ErrorRes("ValidationError")]]
            /\ UNCHANGED <<mgrVars, inv, histVars>>
       ELSE LET bn == GetClientBranch("notion")
                m1 == AfterGetClient(Mgr, "notion", bn)
                ba == GetClientBranch("asana")
                m2 == AfterGetClient(m1, "asana", ba)
            IN /\ Len(m2.conn) <= MaxConn
               /\ conn' = m2.conn
               /\ connectionPromises' = m2.promises
               /\ inv' = [inv EXCEPT ![t] =
                    [s \in Service |->
                        IF s = "notion" THEN InvStart(Mgr, s, bn, Trim(q))
                        ELSE InvStart(m1, s, ba, Trim(q))]]
               /\ task' = [task EXCEPT ![t] =
                    [IdleTask EXCEPT !.op = "search", !.pc = "fanout", !.query = q,
                        !.callNo = calls + 1]]
               /\ needsReconnect' = [s \in Service |-> FALSE]
               /\ UNCHANGED <<clients, sessions, dead>>
    /\ UNCHANGED outerVars

\* The values of the searchService calls of task t that fulfilled, notion first.
RECURSIVE Fulfilled(_, _)
Fulfilled(t, i) ==
    IF i > Len(ServiceOrder) THEN <<>>
    ELSE (IF inv[t][ServiceOrder[i]].pc = "fulfilled"
          THEN inv[t][ServiceOrder[i]].value ELSE <<>>) \o Fulfilled(t, i + 1)

AnyRejected(t) == \E s \in Service : inv[t][s].pc = "rejected"

\* Promise.all in place of Promise.allSettled: one rejection fails the search.
SearchOutcomeFailFast(t) ==
    IF AnyRejected(t) THEN ErrorRes("SearchFailed")
    ELSE ResultsRes(sortSearchResults(Fulfilled(t, 1)))

\* Lines 33-57: collect what fulfilled, sort, return.
SearchOutcome(t) == ResultsRes(sortSearchResults(Fulfilled(t, 1)))

\* Promise.allSettled resolves once both searchService calls have settled.
SearchJoin(t) ==
    /\ task[t].op = "search"
    /\ task[t].pc = "fanout"
    /\ \A s \in Service : inv[t][s].pc \in {"fulfilled", "rejected"}
    /\ task' = [task EXCEPT ![t].pc = "done", ![t].res = SearchOutcome(t)]
    /\ UNCHANGED <<mgrVars, inv, calls, histVars, outerVars>>

Backend ==
    \E t \in Tasks, s \in Service :
        \/ \E tools \in ToolLists : ListToolsOk(t, s, tools)
        \/ \E content \in ToolContents : CallToolOk(t, s, content)
        \/ \E resources \in ResourceLists : ListResourcesOk(t, s, resources)
        \/ InvFail(t, s)

NextSearch ==
    \/ \E t \in SearchTasks, via \in {"ApiClient", "SearchService"}, q \in Queries :
            CallSearch(t, via, q)
    \/ Settle
    \/ Backend
    \/ \E t \in Tasks : SearchJoin(t)
    \/ Tick

\* The manager after getClient has connected the services of S, notion first.
RECURSIVE Connected(_, _)
Connected(S, i) ==
    IF i > Len(ServiceOrder) THEN <<>>
    ELSE (IF ServiceOrder[i] \in S THEN <<ServiceOrder[i]>> ELSE <<>>) \o Connected(S, i + 1)

ManagerConnected(S) ==
    LET order == Connected(S, 1)
    IN /\ conn = [a \in 1..Len(order) |-> [svc |-> order[a], st |-> "ok", client |-> a, token |-> "present"]]
       /\ sessions = [c \in 1..Len(order) |->
                [svc |-> order[c], connected |-> TRUE, closed |-> FALSE]]
       /\ clients = [s \in Service |->
                IF s \in S THEN CHOOSE c \in 1..Len(order) : order[c] = s ELSE None]
       /\ connectionPromises = [s \in Service |-> None]
       /\ task = [t \in Tasks |-> IdleTask]
       /\ inv = [t \in Tasks |-> [s \in Service |-> NoInv]]
       /\ calls = 0
       /\ dead = {}
       /\ needsReconnect = [s \in Service |-> FALSE]
       /\ clock = 1
       /\ aggIn = <<>>
       /\ aggOut = <<>>
       /\ aggOp = "none"

InitSearch ==
    \E S \in SUBSET Service :
        /\ ManagerConnected(S)
        /\ conversations = <<>>
        /\ conversationHistory = <<>>
        /\ chat = [t \in Tasks |-> NoChat]

SpecSearch == InitSearch /\ [][NextSearch]_vars

(***************************************************************************)
(* Claims about the search aggregator, checked under SpecSearch.           *)
(***************************************************************************)
\* A query with no character other than whitespace.
Blank(q) == \A i \in 1..Len(q) : q[i] \in Whitespace

Occurrences(sq, x) == Cardinality({i \in 1..Len(sq) : sq[i] = x})

\* The same entries, each as many times, in any order.
SameEntries(a, b) ==
    /\ Len(a) = Len(b)
    /\ \A i \in 1..Len(a) : Occurrences(a, a[i]) = Occurrences(b, a[i])

\* C5: a search with a non-empty query does not raise whatever backends
\* fail: it returns the results of the backends that succeeded and nothing
\* else, the empty list when all failed.
C5_SearchToleratesBackendFailure ==
    \A t \in Tasks :
        (task[t].op = "search" /\ task[t].pc = "done" /\ ~Blank(task[t].query)) =>
            /\ task[t].res.kind = "results"
            /\ SameEntries(task[t].res.v, Fulfilled(t, 1))
            /\ (\A s \in Service : inv[t][s].pc = "rejected") => task[t].res.v = <<>>

\* A search returned the results of the one backend that succeeded.
C5_Witness ==
    \E t \in Tasks, s, r \in Service :
        /\ task[t].op = "search" /\ task[t].pc = "done"
        /\ inv[t][s].pc = "rejected"
        /\ inv[t][r].pc = "fulfilled" /\ inv[t][r].value # <<>>
        /\ task[t].res.kind = "results"
        /\ Len(task[t].res.v) = Len(inv[t][r].value)

\* C6: a search whose query is empty after trimming fails with a validation
\* error in the step that calls it: no searchService call, no connection
\* attempt and no credential fetch is started, and clients and
\* connectionPromises are unchanged.
C6_EmptyQueryFailsFirst ==
    [][\A t \in Tasks :
        (/\ task[t].pc \in {"idle", "done"}
         /\ task'[t] # task[t]
         /\ task'[t].op = "search"
         /\ Blank(task'[t].query))
            => /\ task'[t].pc = "done"
               /\ task'[t].res = ErrorRes("ValidationError")
               /\ UNCHANGED <<clients, connectionPromises, conn, sessions, inv>>]_vars

\* A whitespace-only query was rejected while a Session was stored.
C6_Witness ==
    \E t \in Tasks, s \in Service :
        /\ task[t].op = "search" /\ task[t].pc = "done"
        /\ task[t].query # <<>> /\ Blank(task[t].query)
        /\ task[t].res = ErrorRes("ValidationError")
        /\ clients[s] # None

\* C21: the list a search returns holds no two entries sharing (source,
\* title, first 100 characters of content).
C21_SearchDeduplicated ==
    \A t \in Tasks :
        (task[t].op = "search" /\ task[t].pc = "done" /\ task[t].res.kind = "results")
            => \A i, j \in 1..Len(task[t].res.v) :
                    (/\ task[t].res.v[i].source = task[t].res.v[j].source
                     /\ task[t].res.v[i].title = task[t].res.v[j].title
                     /\ Substring0(task[t].res.v[i].content, KeyPrefixLen)
                            = Substring0(task[t].res.v[j].content, KeyPrefixLen))
                        => i = j

(***************************************************************************)
(* The helpers of the aggregator applied to result lists.                  *)
(***************************************************************************)
LongPrefix == [i \in 1..KeyPrefixLen |-> "x"]

\* Results that differ in source, title and lastModified (absent or not) ...
SortResults ==
    {[id |-> <<s, title, now>>, title |-> title, content |-> TextFoo, source |-> s,
      url |-> None, lastModified |-> now] :
        s \in Service, title \in {<<"a">>, <<"b">>}, now \in {None} \cup (1..MaxClock)}

\* ... contents that agree on their first 100 characters only, and titles and
\* contents with the separator of the key in them.
DedupResults ==
    {[id |-> <<"notion", title, content>>, title |-> title, content |-> content,
      source |-> "notion", url |-> None, lastModified |-> None] :
        <<title, content>> \in {<<<<"b">>, LongPrefix \o <<"y">>>>,
                                <<<<"b">>, LongPrefix \o <<"z">>>>,
                                <<<<"a", "-", "b">>, <<"c">>>>,
                                <<<<"a">>, <<"b", "-", "c">>>>}}

ResultUniverse == SortResults \cup DedupResults

InitAgg ==
    /\ Init
    /\ aggIn = <<>>

AggAppend(r) ==
    /\ aggOp = "none"
    /\ Len(aggIn) < MaxResults
    /\ aggIn' = Append(aggIn, r)
    /\ UNCHANGED <<mgrVars, task, inv, calls, histVars, clock, aggOut, aggOp, chatVars>>

AggSort ==
    /\ aggOp = "none"
    /\ aggOut' = sortSearchResults(aggIn)
    /\ aggOp' = "sort"
    /\ UNCHANGED <<mgrVars, task, inv, calls, histVars, clock, aggIn, chatVars>>

AggDedup ==
    /\ aggOp = "none"
    /\ aggOut' = deduplicateResults(aggIn)
    /\ aggOp' = "dedup"
    /\ UNCHANGED <<mgrVars, task, inv, calls, histVars, clock, aggIn, chatVars>>

NextAgg ==
    \/ \E r \in ResultUniverse : AggAppend(r)
    \/ AggSort
    \/ AggDedup

SpecAgg == InitAgg /\ [][NextAgg]_vars

(***************************************************************************)
(* Claims about sortSearchResults and deduplicateResults, checked under    *)
(* SpecAgg.                                                                *)
(***************************************************************************)
\* C7: in the list sortSearchResults returns, every entry that has
\* lastModified comes before every entry that lacks it.
C7_PresentBeforeAbsent ==
    aggOp = "sort" =>
        \A i, j \in 1..Len(aggOut) :
            (aggOut[i].lastModified = None /\ aggOut[j].lastModified # None) => j < i

\* The triple deduplication is specified on.
Triple(r) == <<r.source, r.title, Substring0(r.content, KeyPrefixLen)>>

\* C8: deduplicateResults applied to its own result changes nothing; no two
\* entries of its result share (source, title, first 100 characters of
\* content), and a list of two entries sharing them yields one entry.
C8_DedupIdempotent ==
    aggOp = "dedup" =>
        /\ deduplicateResults(aggOut) = aggOut
        /\ \A i, j \in 1..Len(aggOut) : Triple(aggOut[i]) = Triple(aggOut[j]) => i = j
        /\ (Len(aggIn) = 2 /\ Triple(aggIn[1]) = Triple(aggIn[2])) => aggOut = <<aggIn[1]>>

\* Two entries that differ, in content beyond the first 100 characters and in
\* id, were deduplicated to the first.
C8_Witness ==
    /\ aggOp = "dedup"
    /\ Len(aggIn) = 2
    /\ aggIn[1] # aggIn[2]
    /\ Len(aggIn[1].content) > KeyPrefixLen
    /\ Triple(aggIn[1]) = Triple(aggIn[2])
    /\ aggOut = <<aggIn[1]>>

(***************************************************************************)
(* BedrockClientService: what the model answers.                           *)
(***************************************************************************)
UserMessages == {<<>>, <<" ">>, <<"h", "i">>}

QueryQ == <<"q">>

\* A toolUse block of the reply.
ToolUse(name, input, id) == [name |-> name, input |-> input, toolUseId |-> id]

WithQuery == [query |-> QueryQ]
WithoutQuery == [limit |-> "ten"]

ToolUseLists ==
    {<<ToolUse("searchNotion", WithQuery, "tu1"), ToolUse("searchAsana", WithQuery, "tu2")>>,
     <<ToolUse("searchAll", WithQuery, "tu1")>>,
     <<ToolUse("deletePage", WithQuery, "tu1"), ToolUse("searchNotion", WithoutQuery, "tu2")>>}

\* The responses of the first call, each carrying a message: text only; tool
\* uses with stopReason tool_use; tool uses cut short by another stopReason.
ModelResponses ==
    {[text |-> "answer", toolUses |-> <<>>, stopReason |-> "end_turn"]}
        \cup {[text |-> "", toolUses |-> l, stopReason |-> "tool_use"] : l \in ToolUseLists}
        \cup {[text |-> "partial", toolUses |-> <<ToolUse("searchAll", WithQuery, "tu1")>>,
               stopReason |-> "max_tokens"]}

\* The responses of the second call, sent without tool declarations: a final
\* text, or a reply that asks for tools again and carries no text.
ContinuationResponses ==
    {[text |-> "final", toolUses |-> <<>>, stopReason |-> "end_turn"],
     [text |-> "", toolUses |-> <<ToolUse("searchAll", WithQuery, "tu3")>>,
      stopReason |-> "tool_use"]}

\* What continueWithToolResults returns of them, part_002 lines 158-172.
ContinuationTexts == {r.text : r \in ContinuationResponses}

\* needsToolExecution, part_002 line 118.
NeedsToolExecution(resp) == resp.stopReason = "tool_use" /\ Len(resp.toolUses) > 0

\* One entry of conversationHistory; conv is the conversation of the chat call
\* that pushed it (history, not program state).
HistoryEntry(role, kind, body, cid) == [role |-> role, kind |-> kind, body |-> body, conv |-> cid]

\* continueWithToolResults, lines 133-140: one toolResult block per result.
ToolResultBlocks(results) ==
    [i \in 1..Len(results) |->
        [toolUseId |-> results[i].toolUseId,
         content |-> IF results[i].error # "" THEN <<"Error", results[i].error>>
                     ELSE <<"json", results[i].result>>]]

(***************************************************************************)
(* AgentService.                                                           *)
(***************************************************************************)
ChatRes(response, c) ==
    [kind |-> "chat",
     v |-> [response |-> response, toolsUsed |-> c.toolsUsed, conversationId |-> c.cid,
            searchResults |-> c.searchResults]]

\* !message || message.trim().length === 0, part_001 line 70.
IsEmptyMessageNoTrim(msg) == msg = <<>>

IsEmptyMessage(msg) == msg = <<>> \/ Len(Trim(msg)) = 0

\* A lookup that finds a conversation under every id.
ResolvesAny(convs, id) == TRUE

\* this.conversations.get(id) on the map convs.
Resolves(convs, id) == id \in 1..Len(convs) /\ convs[id].stored

Stored(id) == Resolves(conversations, id)

\* createConversation, lines 52-64.
NewConversation ==
    [stored |-> TRUE, messages |-> <<>>, createdAt |-> clock, updatedAt |-> clock]

\* executeMCPTool, lines 307-344: the error it throws before any await, ""
\* when there is none.
ToolSyncError(tu) ==
    IF "query" \notin DOMAIN tu.input \/ tu.input.query = <<>>
    THEN "Query parameter is required and must be a string"
    ELSE IF tu.name \notin {"searchNotion", "searchAsana", "searchAll"} THEN "Unknown tool"
    ELSE ""

\* The services the tool searches, in call order.
ToolServices(name) ==
    CASE name = "searchNotion" -> {"notion"}
      [] name = "searchAsana" -> {"asana"}
      [] name = "searchAll" -> {"notion", "asana"}

\* The catch block of the tool loop, lines 121-128, with the result dropped.
AfterToolFailureDropped(c, err) == [c EXCEPT !.idx = @ + 1]

\* A catch block that also lists the tool as used.
AfterToolFailureListed(c, err) ==
    [c EXCEPT
        !.toolResults = Append(@, [toolUseId |-> c.toolUses[c.idx].toolUseId,
                                    result |-> None, error |-> err]),
        !.toolsUsed = Append(@, c.toolUses[c.idx].name),
        !.idx = @ + 1]

\* The catch block of the tool loop, lines 121-128.
AfterToolFailure(c, err) ==
    [c EXCEPT
        !.toolResults = Append(@, [toolUseId |-> c.toolUses[c.idx].toolUseId,
                                    result |-> None, error |-> err]),
        !.idx = @ + 1]

\* The try block of the tool loop, with the id of the first request on
\* every result.
AfterToolSuccessFirstId(c, result) ==
    [c EXCEPT
        !.toolResults = Append(@, [toolUseId |-> c.toolUses[1].toolUseId,
                                    result |-> result, error |-> ""]),
        !.toolsUsed = Append(@, c.toolUses[c.idx].name),
        !.searchResults = @ \o result,
        !.idx = @ + 1]

\* The try block of the tool loop, lines 109-119.
AfterToolSuccess(c, result) ==
    [c EXCEPT
        !.toolResults = Append(@, [toolUseId |-> c.toolUses[c.idx].toolUseId,
                                    result |-> result, error |-> ""]),
        !.toolsUsed = Append(@, c.toolUses[c.idx].name),
        !.searchResults = @ \o result,
        !.idx = @ + 1]

\* The tool loop as far as it runs without awaiting I/O.
RECURSIVE SkipFailing(_)
SkipFailing(c) ==
    IF c.idx <= Len(c.toolUses) /\ ToolSyncError(c.toolUses[c.idx]) # ""
    THEN SkipFailing(AfterToolFailure(c, ToolSyncError(c.toolUses[c.idx])))
    ELSE c

\* The loop goes on from chat record c with transcript h: the next tool calls
\* searchService, or, the loop over, continueWithToolResults pushes the
\* results and sends the second request.
Proceed(t, c, h) ==
    IF c.idx > Len(c.toolUses)
    THEN /\ conversationHistory' =
                Append(h, HistoryEntry("user", "toolResult",
                                       ToolResultBlocks(c.toolResults), c.cid))
         /\ chat' = [chat EXCEPT ![t] = [c EXCEPT !.modelCalls = @ + 1]]
         /\ task' = [task EXCEPT ![t].pc = "continue"]
         /\ inv' = [inv EXCEPT ![t] = [s \in Service |-> NoInv]]
         /\ UNCHANGED <<conn, connectionPromises, needsReconnect>>
    ELSE LET S == ToolServices(c.toolUses[c.idx].name)
             q == c.toolUses[c.idx].input.query
             bn == GetClientBranch("notion")
             m1 == IF "notion" \in S THEN AfterGetClient(Mgr, "notion", bn) ELSE Mgr
             ba == GetClientBranch("asana")
             m2 == IF "asana" \in S THEN AfterGetClient(m1, "asana", ba) ELSE m1
         IN /\ Len(m2.conn) <= MaxConn
            /\ conn' = m2.conn
            /\ connectionPromises' = m2.promises
            /\ inv' = [inv EXCEPT ![t] =
                    [s \in Service |->
                        IF s \notin S THEN NoInv
                        ELSE IF s = "notion" THEN InvStart(Mgr, s, bn, q)
                        ELSE InvStart(m1, s, ba, q)]]
            /\ needsReconnect' = [s \in Service |-> IF s \in S THEN FALSE ELSE needsReconnect[s]]
            /\ conversationHistory' = h
            /\ chat' = [chat EXCEPT ![t] = c]
            /\ task' = [task EXCEPT ![t].pc = "tool"]

\* The two messages assigned as the whole list instead of pushed.
WithTurnReplacing(conv, c, response) ==
    [conv EXCEPT
        !.messages =
            <<[role |-> "user", content |-> c.message, timestamp |-> clock,
               toolsUsed |-> <<>>, call |-> c.callNo],
              [role |-> "assistant", content |-> response, timestamp |-> clock,
               toolsUsed |-> c.toolsUsed, call |-> c.callNo]>>,
        !.updatedAt = clock]

\* The assistant message pushed before the user message.
WithTurnAssistantFirst(conv, c, response) ==
    [conv EXCEPT
        !.messages = @ \o
            <<[role |-> "assistant", content |-> response, timestamp |-> clock,
               toolsUsed |-> c.toolsUsed, call |-> c.callNo],
              [role |-> "user", content |-> c.message, timestamp |-> clock,
               toolsUsed |-> <<>>, call |-> c.callNo]>>,
        !.updatedAt = clock]

\* Lines 135-159: the two messages are pushed, updatedAt is set, chat returns.
WithTurn(conv, c, response) ==
    [conv EXCEPT
        !.messages = @ \o
            <<[role |-> "user", content |-> c.message, timestamp |-> clock,
               toolsUsed |-> <<>>, call |-> c.callNo],
              [role |-> "assistant", content |-> response, timestamp |-> clock,
               toolsUsed |-> c.toolsUsed, call |-> c.callNo]>>,
        !.updatedAt = clock]

Finish(t, c, h, response) ==
    /\ conversations' = [conversations EXCEPT ![c.cid] = WithTurn(@, c, response)]
    /\ conversationHistory' = h
    /\ chat' = [chat EXCEPT ![t] = c]
    /\ task' = [task EXCEPT ![t].pc = "done", ![t].res = ChatRes(response, c)]
    /\ UNCHANGED <<conn, connectionPromises, needsReconnect, inv>>

\* chat(message, conversationId) up to the request of converse; id None is a
\* call without conversationId.
CallChat(t, msg, id) ==
    /\ task[t].pc \in {"idle", "done"}
    /\ calls' = calls + 1
    /\ LET create == ~IsEmptyMessage(msg) /\ id = None
           cid == IF create THEN Len(conversations) + 1 ELSE id
           convs == IF create THEN Append(conversations, NewConversation)
                    ELSE conversations
           found == Resolves(convs, cid)
           outcome == IF IsEmptyMessage(msg) THEN ErrorRes("ValidationError")
                      ELSE IF ~found THEN ErrorRes("ConversationNotFound")
                      ELSE NoRes
       IN /\ create => Len(conversations) < MaxConvs
          /\ conversations' = convs
          /\ task' = [task EXCEPT ![t] =
                [IdleTask EXCEPT !.op = "chat", !.callNo = calls + 1,
                    !.pc = IF outcome = NoRes THEN "converse" ELSE "done",
                    !.res = outcome]]
          /\ chat' = [chat EXCEPT ![t] =
                [NoChat EXCEPT
                    !.arg = id, !.cid = cid, !.message = msg, !.callNo = calls + 1,
                    !.before = [conversations |-> conversations,
                                conversationHistory |-> conversationHistory],
                    !.modelCalls = IF outcome = NoRes THEN 1 ELSE 0,
                    !.sent = IF outcome = NoRes
                             THEN Append(conversationHistory,
                                         HistoryEntry("user", "text", msg, cid))
                             ELSE <<>>]]
    /\ UNCHANGED <<mgrVars, inv, histVars, clock, aggVars, conversationHistory>>

\* converse resolves, part_002 lines 77-119: the user message and the reply
\* are pushed to conversationHistory; then lines 97-133 of chat.
ConverseOk(t, resp) ==
    /\ task[t].op = "chat"
    /\ task[t].pc = "converse"
    /\ LET h == conversationHistory \o
                <<HistoryEntry("user", "text", chat[t].message, chat[t].cid),
                  HistoryEntry("assistant", "reply", resp, chat[t].cid)>>
       IN IF NeedsToolExecution(resp)
          THEN /\ Proceed(t, SkipFailing([chat[t] EXCEPT !.toolUses = resp.toolUses,
                                                          !.idx = 1]), h)
               /\ UNCHANGED conversations
          ELSE Finish(t, chat[t], h, resp.text)
    /\ UNCHANGED <<clients, sessions, calls, dead, clock, aggVars>>

\* A chat that pushes the user message before it calls the model.
ModelFailAfterPush(t) ==
    /\ task[t].op = "chat"
    /\ task[t].pc \in {"converse", "continue"}
    /\ conversations' =
            [conversations EXCEPT ![chat[t].cid].messages =
                Append(@, [role |-> "user", content |-> chat[t].message,
                           timestamp |-> clock, toolsUsed |-> <<>>,
                           call |-> chat[t].callNo])]
    /\ task' = [task EXCEPT ![t].pc = "done",
                            ![t].res = ErrorRes("Agent conversation failed")]
    /\ UNCHANGED <<mgrVars, inv, calls, histVars, clock, aggVars, conversationHistory, chat>>

\* Either request of the model rejects: the catch block of chat, lines 161-166.
ModelFail(t) ==
    /\ task[t].op = "chat"
    /\ task[t].pc \in {"converse", "continue"}
    /\ task' = [task EXCEPT ![t].pc = "done",
                            ![t].res = ErrorRes("Agent conversation failed")]
    /\ UNCHANGED <<mgrVars, inv, calls, histVars, clock, aggVars, chatVars>>

\* A join that ends with the first searchService call to settle.
ToolReadyAny(t) ==
    /\ task[t].op = "chat"
    /\ task[t].pc = "tool"
    /\ \E s \in Service : inv[t][s].pc \in {"fulfilled", "rejected"}

\* The searchService calls of the current tool have settled.
ToolReady(t) ==
    /\ task[t].op = "chat"
    /\ task[t].pc = "tool"
    /\ \A s \in Service : inv[t][s].pc \in {"none", "fulfilled", "rejected"}

\* What executeMCPTool returned or threw: searchNotion and searchAsana rethrow
\* the error of searchService; searchAll returns what fulfilled.
ToolSettled(t) ==
    /\ ToolReady(t)
    /\ LET c == chat[t]
           name == c.toolUses[c.idx].name
           failed == name # "searchAll" /\ AnyRejected(t)
           svc == CHOOSE s \in ToolServices(name) : TRUE
       IN Proceed(t,
                  SkipFailing(IF failed
                              THEN AfterToolFailure(c, "Search failed for " \o svc)
                              ELSE AfterToolSuccess(c, Fulfilled(t, 1))),
                  conversationHistory)
    /\ UNCHANGED <<clients, sessions, calls, dead, clock, aggVars, conversations>>

\* The return of the second request in a loop that would run the tools the
\* reply asks for and call the model again.
ContinueOkMultiRound(t, resp) ==
    /\ task[t].op = "chat"
    /\ task[t].pc = "continue"
    /\ LET h == Append(conversationHistory,
                       HistoryEntry("assistant", "reply", resp, chat[t].cid))
       IN IF NeedsToolExecution(resp)
          THEN /\ Proceed(t, SkipFailing([chat[t] EXCEPT !.toolUses = resp.toolUses,
                                                          !.toolResults = <<>>,
                                                          !.idx = 1]), h)
               /\ UNCHANGED conversations
          ELSE Finish(t, chat[t], h, resp.text)
    /\ UNCHANGED <<clients, sessions, calls, dead, clock, aggVars>>

\* continueWithToolResults resolves, part_002 lines 155-172: the reply is
\* pushed to conversationHistory and its text returned, whatever else it
\* holds; then lines 135-159 of chat.
ContinueOk(t, resp) ==
    /\ task[t].op = "chat"
    /\ task[t].pc = "continue"
    /\ Finish(t, chat[t],
              Append(conversationHistory,
                     HistoryEntry("assistant", "reply", resp, chat[t].cid)),
              resp.text)
    /\ UNCHANGED <<clients, sessions, calls, dead, clock, aggVars>>

\* createConversation() called on its own.
CallCreateConversation(t) ==
    /\ task[t].pc \in {"idle", "done"}
    /\ Len(conversations) < MaxConvs
    /\ calls' = calls + 1
    /\ conversations' = Append(conversations, NewConversation)
    /\ task' = [task EXCEPT ![t] =
            [IdleTask EXCEPT !.op = "createConversation", !.pc = "done",
                !.callNo = calls + 1,
                !.res = [kind |-> "conversation", v |-> Len(conversations) + 1]]]
    /\ UNCHANGED <<mgrVars, inv, histVars, clock, aggVars, conversationHistory, chat>>

\* clearConversation(id), lines 186-194.
CallClearConversation(t, id) ==
    /\ task[t].pc \in {"idle", "done"}
    /\ calls' = calls + 1
    /\ conversations' =
            IF Stored(id) THEN [conversations EXCEPT ![id].stored = FALSE]
            ELSE conversations
    /\ conversationHistory' = IF Stored(id) THEN <<>> ELSE conversationHistory
    /\ task' = [task EXCEPT ![t] =
            [IdleTask EXCEPT !.op = "clearConversation", !.pc = "done",
                !.callNo = calls + 1,
                !.res = [kind |-> "cleared", v |-> Stored(id)]]]
    /\ chat' = [chat EXCEPT ![t] = [NoChat EXCEPT !.arg = id]]
    /\ UNCHANGED <<mgrVars, inv, histVars, clock, aggVars>>

\* The orchestrator is driven by one caller here, one call after another.
ChatTasks == SearchTasks

\* A continuation that is due runs before any other event is handled.
ContinuationDue == \E t \in Tasks : ToolReady(t)

\* The backend as the orchestrator's tools meet it: a search tool is listed,
\* and a call of it returns one text item or fails.
ChatToolLists == {<<ToolGetUser, ToolSearch, ToolFind>>}
ChatToolContents == {<<TextItem(TextFoo)>>}

NextChat ==
    \/ \E t \in Tasks : ToolSettled(t)
    \/ \E t \in ChatTasks, msg \in UserMessages, id \in 0..MaxConvs :
            calls < MaxChats /\ ~ContinuationDue /\ CallChat(t, msg, id)
    \/ \E t \in ChatTasks :
            calls < MaxChats /\ ~ContinuationDue /\ CallCreateConversation(t)
    \/ \E t \in ChatTasks, id \in 1..MaxConvs :
            calls < MaxChats /\ ~ContinuationDue /\ CallClearConversation(t, id)
    \/ \E t \in Tasks, resp \in ModelResponses : ~ContinuationDue /\ ConverseOk(t, resp)
    \/ \E t \in Tasks, resp \in ContinuationResponses :
            ~ContinuationDue /\ ContinueOk(t, resp)
    \/ \E t \in Tasks : ~ContinuationDue /\ ModelFail(t)
    \/ \E a \in 1..MaxConn : ~ContinuationDue /\ TokenAbsent(a)
    \/ \E a \in 1..MaxConn : ~ContinuationDue /\ TokenPresent(a)
    \/ \E a \in 1..MaxConn : ~ContinuationDue /\ ConnectOk(a)
    \/ \E a \in 1..MaxConn : ~ContinuationDue /\ ConnectFail(a)
    \/ \E t \in Tasks, s \in Service, tools \in ChatToolLists :
            ~ContinuationDue /\ ListToolsOk(t, s, tools)
    \/ \E t \in Tasks, s \in Service, content \in ChatToolContents :
            ~ContinuationDue /\ CallToolOk(t, s, content)
    \/ \E t \in Tasks, s \in Service : ~ContinuationDue /\ InvFail(t, s)
    \/ ~ContinuationDue /\ Tick

\* The first turn of a first conversation, answered without tools.
Hi == <<"h", "i">>
TextReply == [text |-> "answer", toolUses |-> <<>>, stopReason |-> "end_turn"]
FirstTurn == [NoChat EXCEPT !.cid = 1, !.message = Hi]

\* notion is connected, asana may be; the orchestrator is new, or has answered
\* that first turn.
InitChat ==
    \E S \in {{"notion"}, Service}, used \in BOOLEAN :
        /\ ManagerConnected(S)
        /\ conversations = IF used THEN <<WithTurn(NewConversation, FirstTurn, TextReply.text)>>
                           ELSE <<>>
        /\ conversationHistory =
                IF used THEN <<HistoryEntry("user", "text", Hi, 1),
                               HistoryEntry("assistant", "reply", TextReply, 1)>>
                ELSE <<>>
        /\ chat = [t \in Tasks |-> NoChat]

SpecChat == InitChat /\ [][NextChat]_vars

(***************************************************************************)
(* Claims about the chat orchestrator, checked under SpecChat.             *)
(***************************************************************************)
\* C9: chat with a message that is empty or holds only whitespace fails with a
\* validation error in the calling step itself: no request of the model is
\* made then or later, no conversation is created, no message is appended to
\* any conversation, and the transcript of the model client is untouched.
C9_EmptyMessageRejected ==
    /\ [](\A t \in Tasks :
            (task[t].op = "chat" /\ Blank(chat[t].message))
                => /\ task[t].pc = "done"
                   /\ task[t].res = ErrorRes("ValidationError")
                   /\ chat[t].modelCalls = 0)
    /\ [][\A t \in Tasks :
            (/\ task[t].pc \in {"idle", "done"}
             /\ task'[t] # task[t]
             /\ task'[t].op = "chat"
             /\ Blank(chat'[t].message))
                => /\ conversations' = conversations
                   /\ conversationHistory' = conversationHistory]_vars

\* A whitespace-only message for a stored conversation was rejected.
C9_Witness ==
    \E t \in Tasks :
        /\ task[t].op = "chat" /\ task[t].pc = "done"
        /\ chat[t].message # <<>> /\ Blank(chat[t].message)
        /\ Stored(chat[t].cid)
        /\ conversations[chat[t].cid].messages # <<>>
        /\ task[t].res = ErrorRes("ValidationError")

\* The tool loop of the call is over; of its two tool calls one succeeded.
OneOfTwoFailed(c) ==
    /\ Len(c.toolUses) = 2
    /\ c.idx = 3
    /\ Len(c.toolsUsed) = 1

\* C10: a chat call whose first reply asks for two tool calls of which one
\* fails makes the continuation request; it holds one result per tool call,
\* the result of the failed one with a non-empty error string and the other
\* without; and when the continuation request succeeds the call returns its
\* text, having appended to the conversation the user message and then the
\* assistant message with that text, and nothing else.
C10_ToolFailureTolerated ==
    /\ [](\A t \in Tasks :
            (task[t].op = "chat" /\ OneOfTwoFailed(chat[t]))
                => /\ task[t].pc \in {"continue", "done"}
                   /\ chat[t].modelCalls = 2
                   /\ Len(chat[t].toolResults) = 2
                   /\ \A i \in 1..2 :
                        /\ chat[t].toolResults[i].toolUseId = chat[t].toolUses[i].toolUseId
                        /\ (chat[t].toolResults[i].error # "")
                                <=> (chat[t].toolUses[i].name # chat[t].toolsUsed[1])
                   /\ (task[t].pc = "done" /\ task[t].res.kind = "chat")
                        => task[t].res.v.response \in ContinuationTexts)
    /\ [][\A t \in Tasks :
            (/\ task[t].op = "chat" /\ OneOfTwoFailed(chat[t])
             /\ task[t].pc = "continue"
             /\ task'[t].pc = "done" /\ task'[t].res.kind = "chat")
                => LET before == conversations[chat[t].cid].messages
                       after == conversations'[chat[t].cid].messages
                   IN /\ Len(after) = Len(before) + 2
                      /\ SubSeq(after, 1, Len(before)) = before
                      /\ after[Len(before) + 1].role = "user"
                      /\ after[Len(before) + 1].content = chat[t].message
                      /\ after[Len(before) + 2].role = "assistant"
                      /\ after[Len(before) + 2].content = task'[t].res.v.response]_vars

\* A chat call returned after searchNotion succeeded and searchAsana failed.
C10_Witness ==
    \E t \in Tasks :
        /\ task[t].op = "chat" /\ task[t].pc = "done" /\ task[t].res.kind = "chat"
        /\ OneOfTwoFailed(chat[t])
        /\ chat[t].toolsUsed = <<"searchNotion">>
        /\ chat[t].toolResults[2].error = "Search failed for asana"
        /\ Len(conversations[chat[t].cid].messages) = 2

\* C11: when continueWithToolResults is called, it is handed one result for
\* each tool call of the reply, in the order of the reply, each with the
\* toolUseId of its request, whether the tool succeeded or failed; the
\* tool-result message pushed to the transcript carries the same ids.
C11_OneResultPerRequest ==
    \A t \in Tasks :
        (task[t].op = "chat" /\ chat[t].modelCalls = 2)
            => /\ Len(chat[t].toolUses) > 0
               /\ Len(chat[t].toolResults) = Len(chat[t].toolUses)
               /\ \A i \in 1..Len(chat[t].toolUses) :
                    chat[t].toolResults[i].toolUseId = chat[t].toolUses[i].toolUseId
               /\ task[t].pc = "continue"
                    => LET last == conversationHistory[Len(conversationHistory)]
                       IN /\ last.kind = "toolResult"
                          /\ Len(last.body) = Len(chat[t].toolUses)
                          /\ \A i \in 1..Len(chat[t].toolUses) :
                                last.body[i].toolUseId = chat[t].toolUses[i].toolUseId

\* The second request is out after searchNotion failed and searchAsana
\* succeeded.
C11_Witness ==
    \E t \in Tasks :
        /\ task[t].op = "chat" /\ task[t].pc = "continue"
        /\ Len(chat[t].toolUses) = 2
        /\ chat[t].toolResults[1].error # ""
        /\ chat[t].toolResults[2].error = ""
        /\ chat[t].toolResults[2].toolUseId = "tu2"

\* C12: a chat call makes at most two requests of the model, converse and at
\* most one continueWithToolResults; a second reply that asks for tools again
\* ends the call like any other.
C12_AtMostTwoModelCalls ==
    \A t \in Tasks :
        /\ chat[t].modelCalls <= 2
        /\ (task[t].op = "chat" /\ task[t].pc = "continue") => chat[t].modelCalls = 2
        /\ (task[t].op = "chat" /\ task[t].pc = "converse") => chat[t].modelCalls = 1

\* A chat call returned after a second reply that asked for tools.
C12_Witness ==
    \E t \in Tasks :
        /\ task[t].op = "chat" /\ task[t].pc = "done" /\ task[t].res.kind = "chat"
        /\ chat[t].modelCalls = 2
        /\ conversationHistory[Len(conversationHistory)].body.stopReason = "tool_use"

\* C13: a search over a backend A that lists a search tool whose call returns
\* the one text item "foo", and a backend B that lists no search tool and one
\* resource {uri "x", name "doc1"}, returns exactly two results, one of source
\* A with content "foo" and one of source B with title "doc1" and url "x".
\* Whatever is listed, the fallback returns one result for each of the first
\* five resources and none for the rest, with the uri as url, the name (the
\* uri when there is none) as title and the description as content.
C13_SearchAndFallback ==
    \A t \in Tasks :
        /\ \A A, B \in Service :
            (/\ task[t].op = "search" /\ task[t].pc = "done"
             /\ ~Blank(task[t].query)
             /\ A # B
             /\ inv[t][A].pc = "fulfilled" /\ inv[t][A].tool # <<>>
             /\ inv[t][A].reply = <<[type |-> "text", text |-> <<"f", "o", "o">>]>>
             /\ inv[t][B].pc = "fulfilled" /\ inv[t][B].tool = <<>>
             /\ Len(inv[t][B].reply) = 1
             /\ inv[t][B].reply[1].uri = <<"x">>
             /\ inv[t][B].reply[1].name = <<"d", "o", "c", "1">>)
                => /\ task[t].res.kind = "results"
                   /\ Len(task[t].res.v) = 2
                   /\ \E i, j \in 1..2 :
                        /\ i # j
                        /\ task[t].res.v[i].source = A
                        /\ task[t].res.v[i].content = <<"f", "o", "o">>
                        /\ task[t].res.v[j].source = B
                        /\ task[t].res.v[j].title = <<"d", "o", "c", "1">>
                        /\ task[t].res.v[j].url = <<"x">>
        /\ \A s \in Service :
            (inv[t][s].pc = "fulfilled" /\ inv[t][s].tool = <<>>)
                => LET listed == inv[t][s].reply
                       got == inv[t][s].value
                   IN /\ Len(got) <= 5
                      /\ Len(got) = (IF Len(listed) <= 5 THEN Len(listed) ELSE 5)
                      /\ \A k \in 1..Len(got) :
                            /\ got[k].source = s
                            /\ got[k].url = listed[k].uri
                            /\ got[k].title = (IF listed[k].name # <<>> THEN listed[k].name
                                               ELSE listed[k].uri)
                            /\ listed[k].description # <<>>
                                    => got[k].content = listed[k].description

\* A search returned over notion, which listed a search tool that answered
\* "foo", and asana, which listed none and the one resource doc1.
C13_Witness ==
    \E t \in Tasks :
        /\ task[t].op = "search" /\ task[t].pc = "done"
        /\ inv[t]["notion"].pc = "fulfilled" /\ inv[t]["notion"].tool # <<>>
        /\ inv[t]["notion"].reply = <<TextItem(TextFoo)>>
        /\ inv[t]["asana"].pc = "fulfilled" /\ inv[t]["asana"].tool = <<>>
        /\ inv[t]["asana"].reply = <<Doc1>>
        /\ Len(task[t].res.v) = 2

(***************************************************************************)
(* AgentService.getStats, a function of the conversations map.             *)
(***************************************************************************)
StoredIds == {id \in 1..Len(conversations) : conversations[id].stored}

\* reduce((total, conv) => total + conv.messages.length, 0), line 214.
RECURSIVE TotalMessages(_)
TotalMessages(i) ==
    IF i > Len(conversations) THEN 0
    ELSE (IF conversations[i].stored THEN Len(conversations[i].messages) ELSE 0)
            + TotalMessages(i + 1)

\* The quotient cut off after two decimals.
HundredthsTruncated(total, n) == (100 * total) \div n

\* Math.round(total / n * 100), line 221, the numerator of the average in
\* hundredths: Math.round takes the integer nearest to its argument, the
\* greater one at a tie.  The division is taken as exact; in double
\* arithmetic the result differs only at ties, the first of them at 40
\* conversations.
Hundredths(total, n) == (200 * total + n) \div (2 * n)

\* Lines 208-224; averageMessagesPerConversation is held in hundredths.
getStats ==
    LET n == Cardinality(StoredIds)
        total == TotalMessages(1)
    IN [totalConversations |-> n,
        totalMessages |-> total,
        averageMessagesPerConversation |-> IF n > 0 THEN Hundredths(total, n) ELSE 0]

CallGetStats(t) ==
    /\ task[t].pc \in {"idle", "done"}
    /\ task' = [task EXCEPT ![t] =
            [IdleTask EXCEPT !.op = "getStats", !.pc = "done",
                !.res = [kind |-> "stats", v |-> getStats]]]
    /\ UNCHANGED <<mgrVars, inv, calls, histVars, clock, aggVars, chatVars>>

\* A conversation that holds n messages.
Holding(n, stored) ==
    [stored |-> stored,
     messages |-> [k \in 1..n |->
        [role |-> IF k % 2 = 1 THEN "user" ELSE "assistant", content |-> Hi,
         timestamp |-> 1, toolsUsed |-> <<>>, call |-> 0]],
     createdAt |-> 1, updatedAt |-> 1]

\* The maps getStats is applied to: up to MaxStatConvs conversations, created
\* and some of them cleared, of up to MaxStatMsgs messages.  getStats reads
\* nothing of a conversation but the length of messages.
InitStats ==
    /\ ManagerConnected({})
    /\ \E n \in 0..MaxStatConvs :
        \E sizes \in [1..n -> 0..MaxStatMsgs], kept \in [1..n -> BOOLEAN] :
            conversations = [i \in 1..n |-> Holding(sizes[i], kept[i])]
    /\ conversationHistory = <<>>
    /\ chat = [t \in Tasks |-> NoChat]

NextStats == \E t \in ChatTasks : CallGetStats(t)

SpecStats == InitStats /\ [][NextStats]_vars

(***************************************************************************)
(* Claims about getStats, checked under SpecStats.                         *)
(***************************************************************************)
\* The sizes of the stored conversations, as pairs (conversation, position).
StoredMessages ==
    {p \in (1..Len(conversations)) \X (1..MaxStatMsgs + 1) :
        /\ conversations[p[1]].stored
        /\ p[2] <= Len(conversations[p[1]].messages)}

\* C14: getStats reports the number of stored conversations, the sum of their
\* message counts, and as average (in hundredths) 0 when nothing is stored and
\* otherwise a multiple of 0.01 nearest to totalMessages / totalConversations;
\* for two stored conversations of 3 and 1 messages it reports 2, 4 and 2.00.
C14_StatsAreCountSumMean ==
    \A t \in Tasks :
        (task[t].op = "getStats" /\ task[t].pc = "done")
            => LET r == task[t].res.v
                   n == Cardinality({id \in 1..Len(conversations) : conversations[id].stored})
                   total == Cardinality(StoredMessages)
                   off == 100 * total - r.averageMessagesPerConversation * n
               IN /\ r.totalConversations = n
                  /\ r.totalMessages = total
                  /\ n = 0 => r.averageMessagesPerConversation = 0
                  /\ n > 0 => (2 * off <= n /\ -2 * off <= n)
                  /\ (/\ Len(conversations) = 2
                      /\ conversations[1].stored /\ conversations[2].stored
                      /\ Len(conversations[1].messages) = 3
                      /\ Len(conversations[2].messages) = 1)
                        => r = [totalConversations |-> 2, totalMessages |-> 4,
                                averageMessagesPerConversation |-> 200]

\* getStats answered for three stored conversations of 1, 1 and 0 messages,
\* whose mean is not a multiple of 0.01.
C14_Witness ==
    \E t \in Tasks :
        /\ task[t].op = "getStats" /\ task[t].pc = "done"
        /\ Len(conversations) = 3
        /\ \A i \in 1..3 : conversations[i].stored
        /\ Len(conversations[1].messages) = 1
        /\ Len(conversations[2].messages) = 1
        /\ Len(conversations[3].messages) = 0
        /\ task[t].res.v.averageMessagesPerConversation = 67

(***************************************************************************)
(* More claims about the chat orchestrator, checked under SpecChat.        *)
(***************************************************************************)
\* C15: no step removes, reorders or changes a message of a conversation, it
\* can only append to the list; no step lowers updatedAt or changes
\* createdAt; and updatedAt is never earlier than createdAt.
C15_MessagesAppendOnly ==
    /\ [](\A id \in 1..Len(conversations) :
            conversations[id].updatedAt >= conversations[id].createdAt)
    /\ [][/\ Len(conversations') >= Len(conversations)
          /\ \A id \in 1..Len(conversations) :
                LET before == conversations[id]
                    after == conversations'[id]
                IN /\ Len(after.messages) >= Len(before.messages)
                   /\ SubSeq(after.messages, 1, Len(before.messages)) = before.messages
                   /\ after.updatedAt >= before.updatedAt
                   /\ after.createdAt = before.createdAt
                   /\ after.messages # before.messages
                        => \A k \in 1..Len(after.messages) :
                                after.messages[k].timestamp <= after.updatedAt]_vars

\* A second turn was appended to a conversation at a later time than its
\* first.
C15_Witness ==
    \E id \in 1..Len(conversations) :
        /\ conversations[id].stored
        /\ Len(conversations[id].messages) = 4
        /\ conversations[id].messages[1].timestamp < conversations[id].messages[3].timestamp
        /\ conversations[id].updatedAt > conversations[id].createdAt

C17_DisconnectAllIndependent ==
    \A t \in Tasks :
        task[t].op = "disconnectAll"
            => \A c \in task[t].closed :
                /\ sessions[c].closed
                /\ sessions[c].svc \notin (task[t].closing \cup task[t].closeFailed)
                        => \A s \in Service : clients[s] # c

\* disconnectAll has failed on the close of notion, and asana is evicted.
C17_Witness ==
    \E t \in Tasks :
        /\ task[t].op = "disconnectAll" /\ task[t].pc = "done"
        /\ task[t].res.kind = "error"
        /\ task[t].closeFailed = {"notion"}
        /\ Cardinality(task[t].closed) = 2
        /\ clients["asana"] = None
        /\ clients["notion"] # None

\* C18: chat with a message that is not blank and an id under which no
\* conversation is stored fails with a not-found error in the calling step:
\* no request of the model is made then or later, and no conversation is
\* created or changed.
C18_UnknownIdRejected ==
    /\ [](\A t \in Tasks :
            (task[t].op = "chat" /\ task[t].res = ErrorRes("ConversationNotFound"))
                => /\ task[t].pc = "done"
                   /\ chat[t].modelCalls = 0)
    /\ [][\A t \in Tasks :
            (/\ task[t].pc \in {"idle", "done"}
             /\ task'[t] # task[t]
             /\ task'[t].op = "chat"
             /\ ~Blank(chat'[t].message)
             /\ chat'[t].arg # None
             /\ ~(chat'[t].arg \in 1..Len(conversations)
                    /\ conversations[chat'[t].arg].stored))
                => /\ task'[t].pc = "done"
                   /\ task'[t].res = ErrorRes("ConversationNotFound")
                   /\ conversations' = conversations
                   /\ conversationHistory' = conversationHistory]_vars

\* A chat call with an unknown id was rejected while a conversation was
\* stored under another id.
C18_Witness ==
    \E t \in Tasks :
        /\ task[t].op = "chat" /\ task[t].pc = "done"
        /\ task[t].res = ErrorRes("ConversationNotFound")
        /\ chat[t].arg = 2
        /\ chat[t].message = Hi
        /\ Len(conversations) = 1
        /\ conversations[1].stored

\* C19: the transcript of the first request of a chat call on a conversation
\* ends with the new user message, and every entry before it was written by
\* a chat call on the same conversation.
C19_TranscriptOfOwnConversation ==
    \A t \in Tasks :
        (task[t].op = "chat" /\ chat[t].modelCalls >= 1)
            => LET sent == chat[t].sent
               IN /\ Len(sent) >= 1
                  /\ sent[Len(sent)] = HistoryEntry("user", "text", chat[t].message, chat[t].cid)
                  /\ \A i \in 1..Len(sent) : sent[i].conv = chat[t].cid

\* C20: a step of a chat call on one conversation, or the clearing of one
\* conversation, changes neither the stored messages of any other stored
\* conversation nor the transcript a chat call on that other conversation
\* would send to the model, which is conversationHistory.
C20_ConversationsIndependent ==
    [][\A t \in Tasks, a \in 1..Len(conversations) :
        (/\ task'[t] # task[t]
         /\ task'[t].op \in {"chat", "clearConversation"}
         /\ conversations[a].stored
         /\ a # (IF task'[t].op = "chat" THEN chat'[t].cid ELSE chat'[t].arg))
            => /\ conversations'[a] = conversations[a]
               /\ conversationHistory' = conversationHistory]_vars

(***************************************************************************)
(* Further claims about the connection manager, checked under Spec.        *)
(***************************************************************************)
\* C22: when getToken returns no token for an attempt, the attempt fails in
\* that step with the no-token error for every caller awaiting it; no Client
\* is made and connect is not called, no Client is stored, and the promise of
\* the service is removed.
C22_NoCredentialNoSession ==
    [][\A a \in 1..Len(conn) :
        (conn[a].token = "awaited" /\ conn'[a].token = "absent")
            => /\ conn'[a].st = "err"
               /\ conn'[a].client = None
               /\ sessions' = sessions
               /\ clients' = clients
               /\ clients[conn[a].svc] = None
               /\ connectionPromises'[conn[a].svc] = None
               /\ \A t \in Tasks :
                    (task[t].pc = "awaitConn" /\ task[t].att = a)
                        => /\ task'[t].pc = "done"
                           /\ task'[t].res = ConnectionError(NoTokenMessage)]_vars

\* A getClient call failed for want of a token and left nothing behind.
C22_Witness ==
    \E t \in Tasks :
        /\ task[t].op = "getClient" /\ task[t].pc = "done" /\ task[t].created
        /\ task[t].res = ConnectionError(NoTokenMessage)
        /\ conn[task[t].att].token = "absent"
        /\ conn[task[t].att].client = None
        /\ clients[task[t].svc] = None
        /\ connectionPromises[task[t].svc] = None

\* C23: a promise is stored for a service only while its attempt is
\* unsettled, and is removed in the step that settles the attempt; a caller
\* never awaits a settled attempt, and a getClient call made when the service
\* has no Client and no unsettled attempt (so after a failure) starts an
\* attempt of its own.
C23_PendingOnlyWhileUnsettled ==
    [][/\ \A s \in Service :
            connectionPromises'[s] # None
                => /\ conn'[connectionPromises'[s]].svc = s
                   /\ conn'[connectionPromises'[s]].st \in {"token", "connect"}
       /\ \A a \in 1..Len(conn) :
            (conn[a].st \in {"token", "connect"} /\ conn'[a].st \in {"ok", "err"})
                => connectionPromises'[conn[a].svc] = None
       /\ \A t \in Tasks :
            task'[t].pc = "awaitConn" => conn'[task'[t].att].st \in {"token", "connect"}
       /\ \A t \in Tasks :
            (/\ task[t].pc \in {"idle", "done"}
             /\ task'[t] # task[t]
             /\ task'[t].op = "getClient"
             /\ clients[task'[t].svc] = None
             /\ InFlight(task'[t].svc) = {})
                => /\ task'[t].created
                   /\ task'[t].pc = "awaitConn"
                   /\ task'[t].att = Len(conn) + 1
                   /\ conn' = Append(conn, [svc |-> task'[t].svc, st |-> "token",
                                            client |-> None, token |-> "awaited"])
                   /\ connectionPromises'[task'[t].svc] = Len(conn) + 1]_vars

\* After an attempt for a service failed, a getClient call for the service
\* created a later attempt, which it awaits or which has connected.
C23_Witness ==
    \E t \in Tasks, a \in 1..Len(conn) :
        /\ task[t].op = "getClient" /\ task[t].created
        /\ a < task[t].att
        /\ conn[a].svc = task[t].svc /\ conn[a].st = "err"
        /\ connectionPromises[task[t].svc] \in {None, task[t].att}
        /\ conn[task[t].att].st \in {"token", "connect", "ok"}

\* C24: in the step in which an attempt fails, every getClient call awaiting
\* it, the creator and the joiners alike, completes with the error of the
\* attempt, every searchService call awaiting it is rejected, and no Client is
\* stored for the service.
C24_FailureReachesEveryWaiter ==
    [][\A a \in 1..Len(conn) :
        (conn[a].st \in {"token", "connect"} /\ conn'[a].st = "err")
            => /\ \A t \in Tasks :
                    (task[t].pc = "awaitConn" /\ task[t].att = a)
                        => /\ task'[t].pc = "done"
                           /\ task'[t].res =
                                ConnectionError(IF conn'[a].token = "absent"
                                                THEN NoTokenMessage ELSE ConnectMessage)
               /\ \A t \in Tasks, s \in Service :
                    (inv[t][s].pc = "awaitConn" /\ inv[t][s].att = a)
                        => inv'[t][s].pc = "rejected"
               /\ clients'[conn[a].svc] = None]_vars

\* Two getClient calls, the creator and a joiner of one attempt, both ended
\* with its error.
C24_Witness ==
    \E t, u \in Tasks :
        /\ t # u
        /\ task[t].op = "getClient" /\ task[u].op = "getClient"
        /\ task[t].att = task[u].att /\ task[t].att # None
        /\ task[t].created /\ ~task[u].created
        /\ conn[task[t].att].st = "err"
        /\ task[t].pc = "done" /\ task[u].pc = "done"
        /\ task[t].res.kind = "error" /\ task[u].res = task[t].res
        /\ clients[task[t].svc] = None

\* C25: getConnectionStatus always completes with a status, never an error:
\* {connected: false, needsAuth: true} when isAuthenticated answers false;
\* {connected: false, needsAuth: false} when it answers true and no Client is
\* stored, or the Client stored is probed and listTools fails;
\* {connected: true, needsAuth: false} when the Client stored is probed and
\* listTools succeeds. With a Client stored, a true answer leads to the probe.
C25_ProbeOutcomes ==
    [][\A t \in Tasks :
        (task[t].op = "getConnectionStatus" /\ task[t].pc \in {"auth", "probe"}
            /\ task'[t] # task[t])
            => /\ task'[t].pc = "done" => task'[t].res.kind = "status"
               /\ task'[t].auth = "no"
                    => /\ task'[t].pc = "done"
                       /\ task'[t].res.v = [connected |-> FALSE, needsAuth |-> TRUE]
               /\ (task[t].pc = "auth" /\ task'[t].auth = "yes"
                        /\ clients[task[t].svc] = None)
                    => /\ task'[t].pc = "done"
                       /\ task'[t].res.v = [connected |-> FALSE, needsAuth |-> FALSE]
               /\ (task[t].pc = "auth" /\ task'[t].auth = "yes"
                        /\ clients[task[t].svc] # None)
                    => /\ task'[t].pc = "probe"
                       /\ task'[t].client = clients[task[t].svc]
               /\ (task[t].pc = "probe" /\ task'[t].probed = "ok")
                    => /\ task'[t].pc = "done"
                       /\ task'[t].res.v = [connected |-> TRUE, needsAuth |-> FALSE]
               /\ (task[t].pc = "probe" /\ task'[t].probed = "failed")
                    => /\ task'[t].pc = "done"
                       /\ task'[t].res.v = [connected |-> FALSE, needsAuth |-> FALSE]]_vars

\* One status call ended through the outer catch and another with a
\* successful probe of the Client stored.
C25_Witness ==
    \E t, u \in Tasks :
        /\ t # u
        /\ task[t].op = "getConnectionStatus" /\ task[t].pc = "done"
        /\ task[u].op = "getConnectionStatus" /\ task[u].pc = "done"
        /\ task[t].auth = "threw" /\ task[t].res = StatusRes(FALSE, TRUE)
        /\ task[u].probed = "ok" /\ task[u].res = StatusRes(TRUE, FALSE)

\* C26: close has been called on every Client that was stored in clients and
\* is stored there no longer.
C26_UntrackedSessionsClosed ==
    \A c \in 1..Len(sessions) :
        (sessions[c].connected /\ \A s \in Service : clients[s] # c)
            => sessions[c].closed

(***************************************************************************)
(* Further claims about the backend invoker, checked under SpecSearch.     *)
(***************************************************************************)
\* Two characters that are equal up to the case of a letter.
SameLetter(c, d) ==
    \/ c = d
    \/ \E i \in 1..Len(UpperChars) : {c, d} = {UpperChars[i], LowerChars[i]}

\* The name holds "search" or "find", whatever the case of its letters.
NamedLikeSearch(name) ==
    \E word \in {<<"s", "e", "a", "r", "c", "h">>, <<"f", "i", "n", "d">>} :
        \E k \in 0..(Len(name) - Len(word)) :
            \A m \in 1..Len(word) : SameLetter(name[k + m], word[m])

\* C27: when listTools answers, searchService calls the first tool of the
\* listing whose name holds "search" or "find" in any case, and calls
\* listResources exactly when no name does; a searchService call that called a
\* tool never lists resources, and one that listed resources never calls a
\* tool.
C27_FirstSearchLikeTool ==
    [][\A t \in Tasks, s \in Service :
        /\ (inv[t][s].pc = "listTools" /\ inv'[t][s].pc \in {"callTool", "listResources"})
            => LET tools == inv'[t][s].tools
                   M == {i \in 1..Len(tools) : NamedLikeSearch(tools[i])}
               IN /\ M # {}
                    => /\ inv'[t][s].pc = "callTool"
                       /\ \E i \in M : /\ \A j \in M : i <= j
                                        /\ inv'[t][s].tool = tools[i]
                  /\ M = {} => inv'[t][s].pc = "listResources" /\ inv'[t][s].tool = <<>>
        /\ inv[t][s].pc = "callTool" => inv'[t][s].pc # "listResources"
        /\ inv[t][s].pc = "listResources" => inv'[t][s].pc # "callTool"
        /\ inv'[t][s].pc = "callTool" => inv[t][s].pc \in {"listTools", "callTool"}
        /\ inv'[t][s].pc = "listResources"
            => inv[t][s].pc \in {"listTools", "listResources"}]_vars

\* A backend listed a tool not named like a search, then "notion-Search",
\* then "find_page", and the tool called was "notion-Search".
C27_Witness ==
    \E t \in Tasks, s \in Service :
        /\ inv[t][s].pc = "fulfilled"
        /\ inv[t][s].tools = <<ToolGetUser, ToolSearch, ToolFind>>
        /\ inv[t][s].tool = ToolSearch
        /\ inv[t][s].reply \in ToolContents

(***************************************************************************)
(* Further claims about the chat orchestrator, checked under SpecChat.     *)
(***************************************************************************)
\* C28: the second request to the model is sent in a step that follows the
\* return of the first (it is that return, or the settling of a tool), it is
\* the second request of the call, and when it is sent no searchService call
\* of the turn is unsettled and every tool call of the reply has its result
\* or its error.
C28_ContinuationAfterTools ==
    [][\A t \in Tasks :
        (task'[t].op = "chat" /\ task[t].pc # "continue" /\ task'[t].pc = "continue")
            => /\ task[t].op = "chat"
               /\ task[t].pc \in {"converse", "tool"}
               /\ chat[t].modelCalls = 1
               /\ chat'[t].modelCalls = 2
               /\ \A s \in Service : inv[t][s].pc \in {"none", "fulfilled", "rejected"}
               /\ \A s \in Service : inv'[t][s].pc = "none"
               /\ chat'[t].idx = Len(chat'[t].toolUses) + 1
               /\ Len(chat'[t].toolResults) = Len(chat'[t].toolUses)
               /\ \A k \in 1..Len(chat'[t].toolUses) :
                    chat'[t].toolResults[k].toolUseId = chat'[t].toolUses[k].toolUseId]_vars

\* The second request is outstanding after a searchAll whose two
\* searchService calls settled, one fulfilled and one rejected.
C28_Witness ==
    \E t \in Tasks :
        /\ task[t].op = "chat" /\ task[t].pc = "continue"
        /\ chat[t].modelCalls = 2
        /\ Len(chat[t].toolUses) = 1
        /\ chat[t].toolUses[1].name = "searchAll"
        /\ Len(chat[t].toolResults) = 1
        /\ chat[t].toolResults[1].error = ""
        /\ \E a, b \in 1..Len(conn) :
                /\ conn[a].svc = "notion" /\ conn[b].svc = "asana"
                /\ {conn[a].st, conn[b].st} = {"ok", "err"}

(***************************************************************************)
(* Further claims about sortSearchResults, checked under SpecAgg.          *)
(***************************************************************************)
\* C29: in the list sortSearchResults returns, of two entries with the same
\* lastModified the notion entry comes before the asana entry, and of two
\* entries with the same lastModified and the same source the one whose
\* title is smaller comes first.
C29_TieBreaks ==
    aggOp = "sort" =>
        \A i, j \in 1..Len(aggOut) :
            (i < j /\ aggOut[i].lastModified = aggOut[j].lastModified)
                => /\ aggOut[i].source = "asana" => aggOut[j].source = "asana"
                   /\ aggOut[i].source = aggOut[j].source
                        => LocaleCompare(aggOut[i].title, aggOut[j].title) <= 0

\* The key the order of the sorted list is specified on.
SortKey(r) == <<r.lastModified, r.source, r.title>>

\* The rearrangements of a list.
Rearrangements(l) ==
    {[i \in 1..Len(l) |-> l[f[i]]] :
        f \in {g \in [1..Len(l) -> 1..Len(l)] :
                    \A i, j \in 1..Len(l) : g[i] = g[j] => i = j}}

\* C30: over the entries handed to sortSearchResults, when their keys
\* (lastModified, source, title) differ pairwise, the comparator is
\* antisymmetric and transitive, and every rearrangement of the list is
\* sorted to the same list.
C30_SortOrderTotal ==
    (/\ aggOp = "sort"
     /\ \A i, j \in 1..Len(aggIn) : SortKey(aggIn[i]) = SortKey(aggIn[j]) => i = j)
        => LET R == {aggIn[i] : i \in 1..Len(aggIn)}
           IN /\ \A a, b \in R :
                    /\ CompareResults(a, b) < 0 <=> CompareResults(b, a) > 0
                    /\ CompareResults(a, b) = 0 <=> CompareResults(b, a) = 0
              /\ \A a, b, c \in R :
                    (CompareResults(a, b) < 0 /\ CompareResults(b, c) < 0)
                        => CompareResults(a, c) < 0
              /\ \A l \in Rearrangements(aggIn) : sortSearchResults(l) = aggOut

(***************************************************************************)
(* Further claims about deduplicateResults, checked under SpecAgg.         *)
(***************************************************************************)
\* The positions of a list whose triple no earlier position has.
FirstOfTriple(l) ==
    {i \in 1..Len(l) : \A j \in 1..(i - 1) : Triple(l[j]) # Triple(l[i])}

\* C31: deduplicateResults returns, in input order, exactly the entries whose
\* triple (source, title, first 100 characters of content) no earlier entry
\* of the input has.
C31_DedupKeepsFirstOfEachTriple ==
    aggOp = "dedup" =>
        LET K == FirstOfTriple(aggIn)
        IN /\ Len(aggOut) = Cardinality(K)
           /\ \E f \in [1..Len(aggOut) -> K] :
                /\ \A a, b \in 1..Len(aggOut) : a < b => f[a] < f[b]
                /\ \A a \in 1..Len(aggOut) : aggOut[a] = aggIn[f[a]]

(***************************************************************************)
(* Further claims about AgentService.chat, checked under SpecChat.         *)
(***************************************************************************)
\* The names of the first n tool calls of chat record c whose dispatch
\* returned, in the order of the reply.
RECURSIVE NamesOfReturned(_, _)
NamesOfReturned(c, n) ==
    IF n = 0 THEN <<>>
    ELSE IF c.toolResults[n].error = ""
    THEN Append(NamesOfReturned(c, n - 1), c.toolUses[n].name)
    ELSE NamesOfReturned(c, n - 1)

\* C32: when chat has returned, the toolsUsed it returned and the toolsUsed of
\* the assistant message it pushed are the names of the tool calls whose
\* dispatch returned, in the order of the reply; a tool call whose dispatch
\* threw is not among them.
C32_ToolsUsedAreTheSucceeded ==
    \A t \in Tasks :
        (task[t].op = "chat" /\ task[t].pc = "done" /\ task[t].res.kind = "chat")
            => LET c == chat[t]
                   names == NamesOfReturned(c, Len(c.toolResults))
                   msgs == conversations[c.cid].messages
               IN /\ Len(c.toolResults) = Len(c.toolUses)
                  /\ task[t].res.v.toolsUsed = names
                  /\ msgs[Len(msgs)].role = "assistant"
                  /\ msgs[Len(msgs)].toolsUsed = names

\* A chat call returned after searchNotion failed and searchAsana succeeded.
C32_Witness ==
    \E t \in Tasks :
        /\ task[t].op = "chat" /\ task[t].pc = "done" /\ task[t].res.kind = "chat"
        /\ Len(chat[t].toolUses) = 2
        /\ chat[t].toolUses[1].name = "searchNotion"
        /\ chat[t].toolResults[1].error # ""
        /\ task[t].res.v.toolsUsed = <<"searchAsana">>

\* C33: when chat has failed because a request to the model failed, the
\* conversation of the call holds the messages and the updatedAt it had when
\* chat was called (none, and the time of its creation, when the call
\* created it).
C33_ModelFailureAppendsNothing ==
    \A t \in Tasks :
        (/\ task[t].op = "chat" /\ task[t].pc = "done"
         /\ task[t].res = ErrorRes("Agent conversation failed"))
            => LET c == chat[t]
                   b == c.before.conversations
               IN /\ c.modelCalls \in {1, 2}
                  /\ c.cid \in 1..Len(b)
                        => /\ conversations[c.cid].messages = b[c.cid].messages
                           /\ conversations[c.cid].updatedAt = b[c.cid].updatedAt
                  /\ c.cid \notin 1..Len(b)
                        => /\ conversations[c.cid].messages = <<>>
                           /\ conversations[c.cid].updatedAt
                                = conversations[c.cid].createdAt

\* The second request of a chat call on a conversation of two messages
\* failed, after a tool had run.
C33_Witness ==
    \E t \in Tasks :
        /\ task[t].op = "chat" /\ task[t].pc = "done"
        /\ task[t].res = ErrorRes("Agent conversation failed")
        /\ chat[t].modelCalls = 2
        /\ chat[t].toolsUsed # <<>>
        /\ Len(conversations[chat[t].cid].messages) = 2

(***************************************************************************)
(* AgentService under two concurrent callers.  Both backends are           *)
(* connected, so that a tool awaits listTools and callTool only; the model *)
(* answers with text or asks for one search.                               *)
(***************************************************************************)
ParTasks == {t \in Tasks : t <= 2}

ParModelResponses ==
    {TextReply,
     [text |-> "", toolUses |-> <<ToolUse("searchNotion", WithQuery, "tu1")>>,
      stopReason |-> "tool_use"]}

ParContinuationResponses == {[text |-> "final", toolUses |-> <<>>, stopReason |-> "end_turn"]}

NextChatPar ==
    \/ \E t \in Tasks : ToolSettled(t)
    \/ \E t \in ParTasks, id \in {None, 1} :
            calls < MaxParCalls /\ ~ContinuationDue /\ CallChat(t, Hi, id)
    \/ \E t \in ParTasks :
            calls < MaxParCalls /\ ~ContinuationDue /\ CallClearConversation(t, 1)
    \/ \E t \in Tasks, resp \in ParModelResponses : ~ContinuationDue /\ ConverseOk(t, resp)
    \/ \E t \in Tasks, resp \in ParContinuationResponses :
            ~ContinuationDue /\ ContinueOk(t, resp)
    \/ \E t \in Tasks : ~ContinuationDue /\ ModelFail(t)
    \/ \E t \in Tasks, s \in Service, tools \in ChatToolLists :
            ~ContinuationDue /\ ListToolsOk(t, s, tools)
    \/ \E t \in Tasks, s \in Service, content \in ChatToolContents :
            ~ContinuationDue /\ CallToolOk(t, s, content)
    \/ \E t \in Tasks, s \in Service : ~ContinuationDue /\ InvFail(t, s)

\* The orchestrator has answered one turn without tools.
InitChatPar ==
    /\ ManagerConnected(Service)
    /\ conversations = <<WithTurn(NewConversation, FirstTurn, TextReply.text)>>
    /\ conversationHistory = <<HistoryEntry("user", "text", Hi, 1),
                               HistoryEntry("assistant", "reply", TextReply, 1)>>
    /\ chat = [t \in Tasks |-> NoChat]

SpecChatPar == InitChatPar /\ [][NextChatPar]_vars

(***************************************************************************)
(* Claims about AgentService under concurrent callers, checked under       *)
(* SpecChatPar.                                                            *)
(***************************************************************************)
\* C34: in every state, the messages of every conversation come in pairs: a
\* user message at each odd position, followed by the assistant message
\* pushed by the same chat call.
C34_MessagesInPairs ==
    \A id \in 1..Len(conversations) :
        LET msgs == conversations[id].messages
        IN /\ Len(msgs) % 2 = 0
           /\ \A k \in 1..Len(msgs) :
                IF k % 2 = 1
                THEN /\ msgs[k].role = "user"
                     /\ msgs[k + 1].role = "assistant"
                     /\ msgs[k + 1].call = msgs[k].call
                ELSE msgs[k].role = "assistant"

\* Two chat calls on one conversation overlapped: the call made second
\* pushed its pair of messages before the call made first.
C34_Witness ==
    \E id \in 1..Len(conversations) :
        LET msgs == conversations[id].messages
        IN \E k \in 1..Len(msgs) :
            /\ k + 2 <= Len(msgs)
            /\ msgs[k].call > 0
            /\ msgs[k + 2].call > 0
            /\ msgs[k].call > msgs[k + 2].call

(***************************************************************************)
(* Claims about the connection manager under concurrent callers, checked   *)
(* under Spec.                                                             *)
(***************************************************************************)
\* C35: a getClient call never completes with a Client on which close has
\* been called.
C35_NoClosedSessionHandedOut ==
    [][\A t \in Tasks :
        (/\ task'[t] # task[t]
         /\ task'[t].op = "getClient"
         /\ task'[t].pc = "done"
         /\ task'[t].res.kind = "client")
            => ~sessions'[task'[t].res.v].closed]_vars

\* The manager with a Client connected for notion, as a getClient call
\* leaves it, and concurrent callers from there on.
InitWarm ==
    /\ ManagerConnected({"notion"})
    /\ conversations = <<>>
    /\ conversationHistory = <<>>
    /\ chat = [t \in Tasks |-> NoChat]

SpecWarm == InitWarm /\ [][Next]_vars

\* C36: when the probe of a status call fails and the Client stored for the
\* service is not the Client that was probed, the Client stored stays.
C36_FailedProbeEvictsOnlyProbed ==
    [][\A t \in Tasks :
        (/\ task[t].op = "getConnectionStatus" /\ task[t].pc = "probe"
         /\ task'[t].probed = "failed"
         /\ clients[task[t].svc] # task[t].client)
            => clients'[task[t].svc] = clients[task[t].svc]]_vars

\* The services a completed disconnect or disconnectAll call released.
Released(t) == IF task[t].op = "disconnect" THEN {task[t].svc} ELSE Service

\* C37: once disconnect or disconnectAll has returned, a Client stored for a
\* released service comes from a connection attempt started after the call
\* was made, never from one that was under way when it was made.
C37_NoSessionFromEarlierAttempt ==
    \A t \in Tasks :
        (/\ task[t].op \in {"disconnect", "disconnectAll"}
         /\ task[t].pc = "done"
         /\ task[t].res = VoidRes)
            => \A s \in Released(t) :
                    clients[s] # None
                        => \E a \in 1..Len(conn) :
                                /\ conn[a].client = clients[s]
                                /\ a > task[t].attemptsAtCall

(***************************************************************************)
(* Further claims about AgentService under concurrent callers, checked     *)
(* under SpecChatPar.                                                      *)
(***************************************************************************)
\* C38: in conversationHistory the roles alternate, user first, and every
\* tool-result message comes right after an assistant message whose toolUse
\* blocks carry the ids of its results, in order.
C38_TranscriptWellFormed ==
    \A i \in 1..Len(conversationHistory) :
        LET e == conversationHistory[i]
        IN /\ e.role = (IF i % 2 = 1 THEN "user" ELSE "assistant")
           /\ e.kind = "toolResult"
                => /\ i > 1
                   /\ conversationHistory[i - 1].role = "assistant"
                   /\ Len(conversationHistory[i - 1].body.toolUses) = Len(e.body)
                   /\ Len(e.body) > 0
                   /\ \A k \in 1..Len(e.body) :
                        e.body[k].toolUseId
                            = conversationHistory[i - 1].body.toolUses[k].toolUseId

(***************************************************************************)
(* Further claims about AgentService with one caller, checked under        *)
(* SpecChat.                                                               *)
(***************************************************************************)
\* C39: when chat has failed, the conversations map and conversationHistory
\* are what they were when chat was called.
C39_FailedChatChangesNothing ==
    \A t \in Tasks :
        (task[t].op = "chat" /\ task[t].pc = "done" /\ task[t].res.kind = "error")
            => /\ conversations = chat[t].before.conversations
               /\ conversationHistory = chat[t].before.conversationHistory

(***************************************************************************)
(* A last claim about AgentService under concurrent callers, checked       *)
(* under SpecChatPar.                                                      *)
(***************************************************************************)
\* C40: in the step in which chat returns a response for conversation c,
\* this.conversations.get(c) finds a conversation, and its last two messages
\* are the user message of the call and the assistant message with the
\* response returned.
C40_ReturnedTurnIsStored ==
    [][\A t \in Tasks :
        (/\ task[t].op = "chat" /\ task[t].pc # "done"
         /\ task'[t].pc = "done" /\ task'[t].res.kind = "chat")
            => LET c == task'[t].res.v.conversationId
                   msgs == conversations'[c].messages
               IN /\ Resolves(conversations', c)
                  /\ Len(msgs) >= 2
                  /\ msgs[Len(msgs) - 1].role = "user"
                  /\ msgs[Len(msgs) - 1].content = chat'[t].message
                  /\ msgs[Len(msgs)].role = "assistant"
                  /\ msgs[Len(msgs)].content = task'[t].res.v.response]_vars

====
